---- MODULE Spec2Model ----
(***************************************************************************)
(* Model of the spec_engine package: the field model (models.py), the      *)
(* heuristic parser and answer normalisation (parser.py), the providers    *)
(* (providers.py), the gap-resolution engine (engine.py) and the generate  *)
(* command (cli.py).                                                       *)
(*                                                                         *)
(* A Python str is a sequence of one-character strings.  A confidence is   *)
(* an integer number of hundredths (0.8 is 80): every literal of the code  *)
(* has at most two decimals and the code only compares confidences.        *)
(***************************************************************************)
EXTENDS Integers, Sequences, FiniteSets, TLC

VARIABLES pc, provider, interactive, prompt, draft, idx, followups_asked,
          asked, answers, built, missing_fields, ambiguous_fields, exit_code,
          stderr, written, nf_field, nf_value, nf_result

(* the provider methods build_spec_draft and _generate_spec have called,   *)
(* in order                                                                *)
VARIABLES calls

(* one external call of the LLM-backed provider: its stage, its retry      *)
(* budget, the loop variable attempt, what it did in order, and the answer  *)
(* it returned (an index into the answers, 0 for none)                      *)
VARIABLES cj_stage, cj_max_retries, cj_attempt, cj_log, cj_payload

(* whether the provider has an observer, and the events the observer was   *)
(* called with, in order                                                   *)
VARIABLES cj_observer, cj_events

(* a markdown document, the errors of its validation, and the document it *)
(* was coerced from (empty when it was not coerced)                        *)
VARIABLES md_content, md_errors, md_source

(* one call of resolve_llm_client_config: its two arguments (None or a   *)
(* str), the two environment variables it reads (unset or a str) and what  *)
(* it returned or raised                                                   *)
VARIABLES rc_provider_name, rc_api_key, rc_environ, rc_result

rc_vars == <<rc_provider_name, rc_api_key, rc_environ, rc_result>>

cj_vars == <<cj_stage, cj_max_retries, cj_attempt, cj_log, cj_payload,
            cj_observer, cj_events>>

md_vars == <<md_content, md_errors, md_source>>

vars == <<pc, provider, interactive, prompt, draft, idx, followups_asked,
          asked, answers, built, missing_fields, ambiguous_fields, exit_code,
          stderr, written, nf_field, nf_value, nf_result, calls, cj_vars, md_vars,
          rc_vars>>

----------------------------------------------------------------------------
(* Python str helpers: str.strip, str.split, str.join, str.lower           *)

UpperChars == <<"A","B","C","D","E","F","G","H","I","J","K","L","M",
                "N","O","P","Q","R","S","T","U","V","W","X","Y","Z">>

LowerChars == <<"a","b","c","d","e","f","g","h","i","j","k","l","m",
                "n","o","p","q","r","s","t","u","v","w","x","y","z">>

Digits == {"0","1","2","3","4","5","6","7","8","9"}

Whitespace == {" ", "\t", "\n", "\r"}

IsSpace(c) == c \in Whitespace

LowerChar(c) ==
    IF \E i \in 1..Len(UpperChars) : UpperChars[i] = c
    THEN LowerChars[CHOOSE i \in 1..Len(UpperChars) : UpperChars[i] = c]
    ELSE c

UpperChar(c) ==
    IF \E i \in 1..Len(LowerChars) : LowerChars[i] = c
    THEN UpperChars[CHOOSE i \in 1..Len(LowerChars) : LowerChars[i] = c]
    ELSE c

Lower(s) == [i \in 1..Len(s) |-> LowerChar(s[i])]

MinOf(S) == CHOOSE x \in S : \A y \in S : x <= y

MaxOf(S) == CHOOSE x \in S : \A y \in S : y <= x

(* the k-th smallest element of a set of integers *)
Nth(S, k) == CHOOSE x \in S : Cardinality({y \in S : y < x}) = k - 1

(* s without its leading characters of chars *)
LStripChars(s, chars) ==
    LET keep == {i \in 1..Len(s) : s[i] \notin chars}
    IN IF keep = {} THEN <<>> ELSE SubSeq(s, MinOf(keep), Len(s))

(* s without its trailing characters of chars *)
RStripChars(s, chars) ==
    LET keep == {i \in 1..Len(s) : s[i] \notin chars}
    IN IF keep = {} THEN <<>> ELSE SubSeq(s, 1, MaxOf(keep))

LStrip(s) == LStripChars(s, Whitespace)

RStrip(s) == RStripChars(s, Whitespace)

Strip(s) == RStrip(LStrip(s))

(* the maximal runs of characters outside seps, in order *)
Runs(s, seps) ==
    LET starts == {i \in 1..Len(s) : s[i] \notin seps /\ (i = 1 \/ s[i - 1] \in seps)}
        EndOf(i) == MinOf({j \in i..Len(s) : j = Len(s) \/ s[j + 1] \in seps})
    IN [k \in 1..Cardinality(starts) |->
           SubSeq(s, Nth(starts, k), EndOf(Nth(starts, k)))]

(* str.split(): the maximal runs of non-whitespace characters, in order *)
Split(s) == Runs(s, Whitespace)

(* " ".join(parts) *)
RECURSIVE JoinSpace(_)
JoinSpace(parts) ==
    IF parts = <<>> THEN <<>>
    ELSE IF Len(parts) = 1 THEN parts[1]
    ELSE parts[1] \o <<" ">> \o JoinSpace(Tail(parts))

(* t in s *)
Contains(s, t) ==
    \E i \in 1..(Len(s) - Len(t) + 1) : SubSeq(s, i, i + Len(t) - 1) = t

----------------------------------------------------------------------------
(* models.py *)

LIBRARY == <<"l","i","b","r","a","r","y">>
SERVICE == <<"s","e","r","v","i","c","e">>
CLI_TOOL == <<"C","L","I"," ","t","o","o","l">>
WEB_APP == <<"w","e","b"," ","a","p","p">>
BACKEND_API == <<"b","a","c","k","e","n","d"," ","A","P","I">>
FRONTEND_UI == <<"f","r","o","n","t","e","n","d"," ","U","I">>
FULL_STACK_APP == <<"f","u","l","l","-","s","t","a","c","k"," ","a","p","p">>

(* class ProjectType, in definition order (the order iteration visits) *)
ProjectType ==
    <<LIBRARY, SERVICE, CLI_TOOL, WEB_APP, BACKEND_API, FRONTEND_UI, FULL_STACK_APP>>

REQUIRED_FIELDS ==
    <<"project_name", "project_type", "primary_goal", "target_users",
      "inputs", "outputs", "constraints", "non_goals">>

RequiredFieldSet == {REQUIRED_FIELDS[i] : i \in 1..Len(REQUIRED_FIELDS)}

FieldCandidate(value, confidence, rationale) ==
    [value |-> value, confidence |-> confidence, rationale |-> rationale]

(* FieldCandidate(): the dataclass defaults *)
DefaultCandidate == FieldCandidate(<<>>, 0, <<>>)

(* faulty SpecDraft: the non_goals field is not declared *)
NewSpecDraft_without_non_goals ==
    [name \in {"project_name", "project_type", "primary_goal", "target_users",
               "inputs", "outputs", "constraints"} |-> DefaultCandidate]

(* SpecDraft(): one attribute per dataclass field, each a default candidate *)
NewSpecDraft ==
    [name \in {"project_name", "project_type", "primary_goal", "target_users",
               "inputs", "outputs", "constraints", "non_goals"} |-> DefaultCandidate]

(* setattr(obj, name, v): sets the attribute, creating it when absent *)
SetAttr(obj, name, v) ==
    [k \in (DOMAIN obj) \cup {name} |-> IF k = name THEN v ELSE obj[k]]

(* default thresholds of missing_fields / ambiguous_fields *)
MinConfidence == 50
AcceptedConfidence == 80

(* faulty missing_fields test: the confidence is not looked at *)
IsMissing_value_only(candidate) == Strip(candidate.value) = <<>>

IsMissing(candidate) ==
    Strip(candidate.value) = <<>> \/ candidate.confidence < MinConfidence

(* faulty ambiguous_fields test: the lower bound min_confidence is dropped *)
IsAmbiguous_without_floor(candidate) ==
    /\ Strip(candidate.value) # <<>>
    /\ candidate.confidence < AcceptedConfidence

IsAmbiguous(candidate) ==
    /\ Strip(candidate.value) # <<>>
    /\ MinConfidence <= candidate.confidence
    /\ candidate.confidence < AcceptedConfidence

(* the names, in REQUIRED_FIELDS order, whose candidate is missing *)
MissingFieldsOf(d) ==
    SelectSeq(REQUIRED_FIELDS, LAMBDA name : IsMissing(d[name]))

(* the names, in REQUIRED_FIELDS order, whose candidate is ambiguous *)
AmbiguousFieldsOf(d) ==
    SelectSeq(REQUIRED_FIELDS, LAMBDA name : IsAmbiguous(d[name]))

(* SpecDraft.as_dict *)
AsDict(d) ==
    [name \in RequiredFieldSet |->
        [value |-> d[name].value,
         confidence |-> d[name].confidence,
         rationale |-> d[name].rationale]]

----------------------------------------------------------------------------
(* parser.py: normalize_user_field_value *)

CONF_EXACT == 100
CONF_UNRECOGNIZED_TYPE == 40
CONF_EMPTY == 0

Collapse(value) == JoinSpace(Split(Strip(value)))

RECURSIVE MatchProjectType(_, _)
MatchProjectType(cleaned, i) ==
    IF i > Len(ProjectType) THEN 0
    ELSE IF Lower(cleaned) = Lower(ProjectType[i]) THEN i
    ELSE MatchProjectType(cleaned, i + 1)

(* faulty normalize_user_field_value: the comparison does not ignore case *)
normalize_case_sensitive(field_name, value) ==
    LET cleaned == Collapse(value)
        hits == {i \in 1..Len(ProjectType) : cleaned = ProjectType[i]}
    IN IF field_name = "project_type"
       THEN IF hits # {} THEN <<ProjectType[MinOf(hits)], CONF_EXACT>>
            ELSE <<cleaned, CONF_UNRECOGNIZED_TYPE>>
       ELSE <<cleaned, IF cleaned # <<>> THEN CONF_EXACT ELSE CONF_EMPTY>>

(* faulty normalize_user_field_value: an unrecognized type is kept at 0.5 *)
normalize_unrecognized_at_half(field_name, value) ==
    LET cleaned == Collapse(value)
        hit == MatchProjectType(cleaned, 1)
    IN IF field_name = "project_type"
       THEN IF hit # 0 THEN <<ProjectType[hit], CONF_EXACT>>
            ELSE <<cleaned, MinConfidence>>
       ELSE <<cleaned, IF cleaned # <<>> THEN CONF_EXACT ELSE CONF_EMPTY>>

(* faulty normalize_user_field_value: the confidences of the other fields *)
(* are swapped                                                            *)
normalize_swapped_confidence(field_name, value) ==
    LET cleaned == Collapse(value)
        hit == MatchProjectType(cleaned, 1)
    IN IF field_name = "project_type"
       THEN IF hit # 0 THEN <<ProjectType[hit], CONF_EXACT>>
            ELSE <<cleaned, CONF_UNRECOGNIZED_TYPE>>
       ELSE <<cleaned, IF cleaned # <<>> THEN CONF_EMPTY ELSE CONF_EXACT>>

(* faulty normalize_user_field_value: a project type outside the          *)
(* enumeration is returned like any other non-empty value                  *)
normalize_unrecognized_accepted(field_name, value) ==
    IF field_name = "project_type" /\ MatchProjectType(Collapse(value), 1) # 0
    THEN <<ProjectType[MatchProjectType(Collapse(value), 1)], CONF_EXACT>>
    ELSE <<Collapse(value), IF Collapse(value) # <<>> THEN CONF_EXACT ELSE CONF_EMPTY>>

normalize_user_field_value(field_name, value) ==
    LET cleaned == Collapse(value)
        hit == MatchProjectType(cleaned, 1)
    IN IF field_name = "project_type"
       THEN IF hit # 0 THEN <<ProjectType[hit], CONF_EXACT>>
            ELSE <<cleaned, CONF_UNRECOGNIZED_TYPE>>
       ELSE <<cleaned, IF cleaned # <<>> THEN CONF_EXACT ELSE CONF_EMPTY>>

----------------------------------------------------------------------------
(* parser.py: LABEL_PATTERNS and the regular-expression search             *)

(* One alternative of a label: literal parts separated by a greedy run of  *)
(* the characters of sep, then an optional "s" when plural.                *)
Alt(parts, sep, plural) == [parts |-> parts, sep |-> sep, plural |-> plural]

W_PROJECT == <<"p","r","o","j","e","c","t">>
W_NAME == <<"n","a","m","e">>
W_TYPE == <<"t","y","p","e">>
W_PRIMARY == <<"p","r","i","m","a","r","y">>
W_GOAL == <<"g","o","a","l">>
W_TARGET == <<"t","a","r","g","e","t">>
W_USERS == <<"u","s","e","r","s">>
W_INPUT == <<"i","n","p","u","t">>
W_OUTPUT == <<"o","u","t","p","u","t">>
W_CONSTRAINT == <<"c","o","n","s","t","r","a","i","n","t">>
W_NON == <<"n","o","n">>

LABEL_PATTERNS ==
    [name \in RequiredFieldSet |->
        CASE name = "project_name" ->
               <<Alt(<<W_PROJECT, W_NAME>>, Whitespace, FALSE), Alt(<<W_NAME>>, {}, FALSE)>>
          [] name = "project_type" ->
               <<Alt(<<W_PROJECT, W_TYPE>>, Whitespace, FALSE), Alt(<<W_TYPE>>, {}, FALSE)>>
          [] name = "primary_goal" ->
               <<Alt(<<W_PRIMARY, W_GOAL>>, Whitespace, FALSE), Alt(<<W_GOAL>>, {}, FALSE)>>
          [] name = "target_users" ->
               <<Alt(<<W_TARGET, W_USERS>>, Whitespace, FALSE), Alt(<<W_USERS>>, {}, FALSE)>>
          [] name = "inputs" -> <<Alt(<<W_INPUT>>, {}, TRUE)>>
          [] name = "outputs" -> <<Alt(<<W_OUTPUT>>, {}, TRUE)>>
          [] name = "constraints" -> <<Alt(<<W_CONSTRAINT>>, {}, TRUE)>>
          [] name = "non_goals" ->
               <<Alt(<<W_NON, W_GOAL>>, Whitespace \cup {"-"}, TRUE)>>]

(* first index >= i of line whose character is not in S *)
SkipWhile(line, i, S) ==
    MinOf({j \in i..(Len(line) + 1) : j > Len(line) \/ line[j] \notin S} \cup {Len(line) + 1})

(* re.IGNORECASE literal at i: the index after it, or 0 *)
MatchLiteral(line, i, lit) ==
    IF i + Len(lit) - 1 <= Len(line)
       /\ Lower(SubSeq(line, i, i + Len(lit) - 1)) = Lower(lit)
    THEN i + Len(lit) ELSE 0

RECURSIVE MatchParts(_, _, _, _)
MatchParts(line, i, parts, sep) ==
    LET j == MatchLiteral(line, i, Head(parts))
    IN IF j = 0 THEN 0
       ELSE IF Len(parts) = 1 THEN j
       ELSE MatchParts(line, SkipWhile(line, j, sep), Tail(parts), sep)

NoMatch == [ok |-> FALSE, group |-> <<>>]

(* \s*:\s*(.+) from index i: group 1 is the rest of the line after the     *)
(* colon and the whitespace that follows it; when only whitespace follows, *)
(* backtracking leaves the last character for (.+)                         *)
MatchColonValue(line, i) ==
    LET k == SkipWhile(line, i, Whitespace)
        m == SkipWhile(line, k + 1, Whitespace)
    IN IF k > Len(line) \/ line[k] # ":" THEN NoMatch
       ELSE IF m <= Len(line) THEN [ok |-> TRUE, group |-> SubSeq(line, m, Len(line))]
       ELSE IF k + 1 <= Len(line) THEN [ok |-> TRUE, group |-> <<line[Len(line)]>>]
       ELSE NoMatch

MatchAlt(line, i, alt) ==
    LET j == MatchParts(line, i, alt.parts, alt.sep)
        withS == IF j # 0 /\ alt.plural /\ j <= Len(line) /\ LowerChar(line[j]) = "s"
                 THEN MatchColonValue(line, j + 1) ELSE NoMatch
    IN IF j = 0 THEN NoMatch
       ELSE IF withS.ok THEN withS
       ELSE MatchColonValue(line, j)

RECURSIVE MatchAnyAlt(_, _, _)
MatchAnyAlt(line, i, alts) ==
    IF alts = <<>> THEN NoMatch
    ELSE LET r == MatchAlt(line, i, Head(alts))
         IN IF r.ok THEN r ELSE MatchAnyAlt(line, i, Tail(alts))

(* pattern.search(line): the match at the leftmost index that has one *)
Search(line, pattern) ==
    LET hits == {i \in 1..Len(line) : MatchAnyAlt(line, i, pattern).ok}
    IN IF hits = {} THEN NoMatch ELSE MatchAnyAlt(line, MinOf(hits), pattern)

(* str.rstrip(".") *)
RStripDots(s) == RStripChars(s, {"."})

RECURSIVE extract_from_lines(_, _)
extract_from_lines(lines, pattern) ==
    IF lines = <<>> THEN <<>>
    ELSE LET r == Search(Head(lines), pattern)
         IN IF r.ok THEN RStripDots(Strip(r.group))
            ELSE extract_from_lines(Tail(lines), pattern)

(* str.splitlines(): a line ends at "\n", "\r" or "\r\n"; text after the   *)
(* last line end is a line when it is not empty                            *)
SplitLines(s) ==
    LET ends == {i \in 1..Len(s) :
                    \/ s[i] = "\r"
                    \/ s[i] = "\n" /\ (i = 1 \/ s[i - 1] # "\r")}
        After(i) == IF s[i] = "\r" /\ i < Len(s) /\ s[i + 1] = "\n" THEN i + 2 ELSE i + 1
        n == Cardinality(ends)
        StartOf(k) == IF k = 1 THEN 1 ELSE After(Nth(ends, k - 1))
        terminated == [k \in 1..n |-> SubSeq(s, StartOf(k), Nth(ends, k) - 1)]
    IN IF StartOf(n + 1) <= Len(s)
       THEN Append(terminated, SubSeq(s, StartOf(n + 1), Len(s)))
       ELSE terminated

(* [line.strip() for line in lines if line.strip()] *)
StripNonBlank(lines) ==
    LET keep == {i \in 1..Len(lines) : Strip(lines[i]) # <<>>}
    IN [k \in 1..Cardinality(keep) |-> Strip(lines[Nth(keep, k)])]

(* _infer_project_type: the buckets in priority order *)
TypeChecks ==
    <<<<FULL_STACK_APP, <<<<"f","u","l","l"," ","s","t","a","c","k">>, <<"f","r","o","n","t","e","n","d"," ","a","n","d"," ","b","a","c","k","e","n","d">>, <<"e","n","d","-","t","o","-","e","n","d"," ","a","p","p">>>>>>,
      <<BACKEND_API, <<<<"a","p","i">>, <<"e","n","d","p","o","i","n","t">>, <<"r","e","s","t">>, <<"g","r","a","p","h","q","l">>>>>>,
      <<FRONTEND_UI, <<<<"f","r","o","n","t","e","n","d">>, <<"u","i">>, <<"s","i","n","g","l","e","-","p","a","g","e">>, <<"s","p","a">>>>>>,
      <<WEB_APP, <<<<"w","e","b"," ","a","p","p">>, <<"w","e","b","s","i","t","e">>, <<"b","r","o","w","s","e","r"," ","a","p","p">>>>>>,
      <<CLI_TOOL, <<<<"c","l","i">>, <<"c","o","m","m","a","n","d"," ","l","i","n","e">>, <<"t","e","r","m","i","n","a","l"," ","t","o","o","l">>>>>>,
      <<SERVICE, <<<<"s","e","r","v","i","c","e">>, <<"d","a","e","m","o","n">>, <<"w","o","r","k","e","r">>>>>>,
      <<LIBRARY, <<<<"l","i","b","r","a","r","y">>, <<"s","d","k">>, <<"p","a","c","k","a","g","e">>>>>>>>

AnyTermIn(terms, lowered) == \E k \in 1..Len(terms) : Contains(lowered, terms[k])

RECURSIVE FirstBucket(_, _)
FirstBucket(lowered, i) ==
    IF i > Len(TypeChecks) THEN <<>>
    ELSE IF AnyTermIn(TypeChecks[i][2], lowered) THEN TypeChecks[i][1]
    ELSE FirstBucket(lowered, i + 1)

infer_project_type(text) == FirstBucket(Lower(text), 1)

(* re.findall(r"[A-Za-z0-9\-]+", text) *)
IsWordChar(c) ==
    \/ \E i \in 1..Len(UpperChars) : UpperChars[i] = c \/ LowerChars[i] = c
    \/ c \in Digits
    \/ c = "-"

FindWords(s) == Runs(s, {s[i] : i \in 1..Len(s)} \ {c \in {s[i] : i \in 1..Len(s)} : IsWordChar(c)})

(* str.capitalize() *)
Capitalize(w) ==
    IF w = <<>> THEN <<>> ELSE <<UpperChar(Head(w))>> \o Lower(Tail(w))

NAME_WORDS == 4
EXCERPT_LEN == 220

Prefix(s, n) == SubSeq(s, 1, IF Len(s) < n THEN Len(s) ELSE n)

infer_project_name(text) ==
    LET words == FindWords(text)
        top == Prefix(words, NAME_WORDS)
    IN JoinSpace([i \in 1..Len(top) |-> Capitalize(top[i])])

R_EXPLICIT_LABEL == <<"e","x","p","l","i","c","i","t","_","l","a","b","e","l">>
R_KEYWORD_INFERENCE == <<"k","e","y","w","o","r","d","_","i","n","f","e","r","e","n","c","e">>
R_TITLE_INFERENCE == <<"t","i","t","l","e","_","i","n","f","e","r","e","n","c","e">>
R_FALLBACK_PROMPT_EXCERPT == <<"f","a","l","l","b","a","c","k","_","p","r","o","m","p","t","_","e","x","c","e","r","p","t">>

CONF_EXPLICIT_LABEL == 95
CONF_KEYWORD_INFERENCE == 70
CONF_TITLE_INFERENCE == 55
CONF_FALLBACK_EXCERPT == 40

(* faulty label loop: a labelled value is set at the inference confidence *)
ApplyLabel_at_inference_confidence(d, field_name, value) ==
    IF value # <<>>
    THEN SetAttr(d, field_name, FieldCandidate(value, CONF_KEYWORD_INFERENCE, R_EXPLICIT_LABEL))
    ELSE d

(* one entry of the loop: a labelled value, when found, is set at 0.95 *)
ApplyLabel(d, field_name, value) ==
    IF value # <<>>
    THEN SetAttr(d, field_name, FieldCandidate(value, CONF_EXPLICIT_LABEL, R_EXPLICIT_LABEL))
    ELSE d

(* the loop over LABEL_PATTERNS.items(), from its i-th entry on *)
RECURSIVE ApplyLabels(_, _, _)
ApplyLabels(d, lines, i) ==
    IF i > Len(REQUIRED_FIELDS) THEN d
    ELSE ApplyLabels(
             ApplyLabel(d, REQUIRED_FIELDS[i],
                        extract_from_lines(lines, LABEL_PATTERNS[REQUIRED_FIELDS[i]])),
             lines, i + 1)

(* if not draft.project_type.value and inferred_type *)
SetInferredType(d, inferred_type) ==
    IF d["project_type"].value = <<>> /\ inferred_type # <<>>
    THEN SetAttr(d, "project_type",
                 FieldCandidate(inferred_type, CONF_KEYWORD_INFERENCE, R_KEYWORD_INFERENCE))
    ELSE d

(* if not draft.project_name.value and name *)
SetInferredName(d, name) ==
    IF d["project_name"].value = <<>> /\ name # <<>>
    THEN SetAttr(d, "project_name",
                 FieldCandidate(name, CONF_TITLE_INFERENCE, R_TITLE_INFERENCE))
    ELSE d

(* if not draft.primary_goal.value and joined: joined[:220] *)
SetFallbackGoal(d, joined) ==
    IF d["primary_goal"].value = <<>> /\ joined # <<>>
    THEN SetAttr(d, "primary_goal",
                 FieldCandidate(Prefix(joined, EXCERPT_LEN), CONF_FALLBACK_EXCERPT,
                                R_FALLBACK_PROMPT_EXCERPT))
    ELSE d

(* parse_prompt after the label loop *)
InferFields(d, joined) ==
    SetFallbackGoal(
        SetInferredName(SetInferredType(d, infer_project_type(joined)),
                        infer_project_name(joined)),
        joined)

ParseLines(lines) == InferFields(ApplyLabels(NewSpecDraft, lines, 1), JoinSpace(lines))

parse_prompt(p) == ParseLines(StripNonBlank(SplitLines(p)))

----------------------------------------------------------------------------
(* providers.py *)

(* A JSON value is a record [t, v]: t its Python type, v its content.  A   *)
(* dict is a function from its keys.                                       *)
JStr(s) == [t |-> "str", v |-> s]
JNum(n) == [t |-> "num", v |-> n]
JBool(b) == [t |-> "bool", v |-> b]
JNull == [t |-> "null", v |-> 0]
JList == [t |-> "list", v |-> 0]
JDict(f) == [t |-> "dict", v |-> f]

(* dict.get(key, default) *)
DictGet(d, key, default) == IF key \in DOMAIN d.v THEN d.v[key] ELSE default

Failure == [ok |-> FALSE, draft |-> <<>>]

DigitValue(c) == CHOOSE n \in 0..9 : <<"0","1","2","3","4","5","6","7","8","9">>[n + 1] = c

(* index of the first "." of the digits, or one past their end *)
DotIndex(digits) ==
    IF \E i \in 1..Len(digits) : digits[i] = "."
    THEN CHOOSE i \in 1..Len(digits) : digits[i] = "." /\ \A j \in 1..(i - 1) : digits[j] # "."
    ELSE Len(digits) + 1

(* the value, in hundredths, of a sign, a whole part and a fraction part *)
ParseParts(neg, whole, frac) ==
    IF /\ Len(whole) + Len(frac) > 0
       /\ Len(whole) <= 1 /\ Len(frac) <= 2
       /\ \A i \in 1..Len(whole) : whole[i] \in Digits
       /\ \A i \in 1..Len(frac) : frac[i] \in Digits
    THEN [ok |-> TRUE,
          num |-> (IF neg THEN 0 - 1 ELSE 1) *
                  (100 * (IF whole = <<>> THEN 0 ELSE DigitValue(whole[1]))
                   + 10 * (IF Len(frac) >= 1 THEN DigitValue(frac[1]) ELSE 0)
                   + (IF Len(frac) >= 2 THEN DigitValue(frac[2]) ELSE 0))]
    ELSE [ok |-> FALSE, num |-> 0]

ParseDigits(neg, digits) ==
    ParseParts(neg, SubSeq(digits, 1, DotIndex(digits) - 1),
               SubSeq(digits, DotIndex(digits) + 1, Len(digits)))

ParseSigned(body) ==
    ParseDigits(body # <<>> /\ Head(body) = "-",
                IF body # <<>> /\ Head(body) \in {"-", "+"} THEN Tail(body) ELSE body)

(* float(str) for plain decimals with at most two fraction digits, in      *)
(* hundredths; any other text is a ValueError                              *)
ParseFloat(s) == ParseSigned(Strip(s))

(* float(confidence): TypeError / ValueError are ok = FALSE *)
FloatOf(j) ==
    CASE j.t = "num" -> [ok |-> TRUE, num |-> j.v]
      [] j.t = "bool" -> [ok |-> TRUE, num |-> IF j.v THEN 100 ELSE 0]
      [] j.t = "str" -> ParseFloat(j.v)
      [] OTHER -> [ok |-> FALSE, num |-> 0]

(* the checks on value, confidence and rationale of one field's object *)
BuildEntry(field_value, confidence_num, rationale) ==
    IF field_value.t # "str" THEN [ok |-> FALSE, entry |-> DefaultCandidate]
    ELSE IF ~confidence_num.ok THEN [ok |-> FALSE, entry |-> DefaultCandidate]
    ELSE IF confidence_num.num < 0 \/ confidence_num.num > 100
         THEN [ok |-> FALSE, entry |-> DefaultCandidate]
    ELSE IF rationale.t # "str" THEN [ok |-> FALSE, entry |-> DefaultCandidate]
    ELSE [ok |-> TRUE,
          entry |-> FieldCandidate(Strip(field_value.v), confidence_num.num,
                                   Strip(rationale.v))]

(* value = payload.get(field_name): it must be a dict *)
ValidateEntry(value) ==
    IF value.t # "dict" THEN [ok |-> FALSE, entry |-> DefaultCandidate]
    ELSE BuildEntry(DictGet(value, "value", JStr(<<>>)),
                    FloatOf(DictGet(value, "confidence", JNum(0))),
                    DictGet(value, "rationale", JStr(<<>>)))

(* one field of the payload: the normalized entry, or ok = FALSE *)
ValidateField(payload, field_name) ==
    ValidateEntry(DictGet(payload, field_name, JNull))

(* SpecDraft.from_dict: providers.py calls it, models.py does not define it *)
from_dict(normalized) ==
    [name \in RequiredFieldSet |->
        FieldCandidate(normalized[name].value, normalized[name].confidence,
                       normalized[name].rationale)]

(* OpenAIProvider._validate_and_build: the draft, or ok = FALSE for a      *)
(* ProviderError                                                           *)
validate_and_build(payload) ==
    IF payload.t # "dict" THEN Failure
    ELSE IF \E i \in 1..Len(REQUIRED_FIELDS) : ~ValidateField(payload, REQUIRED_FIELDS[i]).ok
         THEN Failure
    ELSE [ok |-> TRUE,
          draft |-> from_dict([name \in RequiredFieldSet |->
                                  ValidateField(payload, name).entry])]

(* OpenAIProvider.max_retries and retry_delay_seconds (hundredths of a second) *)
MAX_RETRIES == 1
RETRY_DELAY == 30

(* getattr(selected_provider, "is_llm_provider", False) *)
IsLLMProvider(p) == p \in {"openai", "fake_llm"}

(* the answers of the external service to an extraction or normalization   *)
(* call, as _call_json returns them                                        *)
Obj(value, confidence, rationale) ==
    JDict([k \in {"value", "confidence", "rationale"} |->
             CASE k = "value" -> value
               [] k = "confidence" -> confidence
               [] k = "rationale" -> rationale])

T_X == <<"x">>
T_PADDED == <<" ","x"," ">>
T_GIZMO == <<"g","i","z","m","o">>
T_LLM == <<"l","l","m">>
T_HALF == <<"0",".","7">>

GoodObj == Obj(JStr(T_PADDED), JNum(100), JStr(T_LLM))
EmptyObj == Obj(JStr(<<>>), JNum(0), JStr(<<>>))

Uniform(obj) == JDict([name \in RequiredFieldSet |-> obj])

With(payload, key, obj) ==
    JDict([k \in (DOMAIN payload.v) \cup {key} |-> IF k = key THEN obj ELSE payload.v[k]])

Without(payload, key) == JDict([k \in (DOMAIN payload.v) \ {key} |-> payload.v[k]])

DraftPayloads ==
    <<Uniform(GoodObj),
      Uniform(EmptyObj),
      With(Uniform(GoodObj), "project_type", Obj(JStr(T_GIZMO), JNum(90), JStr(T_LLM))),
      With(With(Uniform(GoodObj), "inputs", Obj(JStr(T_X), JNum(79), JStr(T_LLM))),
           "outputs", Obj(JStr(T_X), JNum(49), JStr(T_LLM))),
      With(With(With(With(Uniform(GoodObj),
           "project_name", Obj(JStr(T_X), JNum(50), JStr(T_LLM))),
           "primary_goal", Obj(JStr(<<>>), JNum(100), JStr(T_LLM))),
           "target_users", Obj(JStr(T_X), JStr(T_HALF), JStr(T_LLM))),
           "constraints", Obj(JStr(T_X), JNum(80), JStr(T_LLM))),
      With(Uniform(GoodObj), "extra_key", GoodObj),
      Without(Uniform(GoodObj), "non_goals"),
      With(Uniform(GoodObj), "inputs", Obj(JStr(T_X), JNum(101), JStr(T_LLM))),
      With(Uniform(GoodObj), "inputs", Obj(JNum(5), JNum(50), JStr(T_LLM))),
      With(Uniform(GoodObj), "inputs", Obj(JStr(T_X), JNull, JStr(T_LLM))),
      With(Uniform(GoodObj), "inputs", JStr(T_X)),
      JList,
      With(Uniform(GoodObj), "inputs", JDict([k \in {} |-> JNull]))>>

(* OpenAIProvider.extract_requirements / normalize_spec on the i-th answer; *)
(* i = 0 is _call_json raising after its retries                            *)
llm_draft(i) == IF i = 0 THEN Failure ELSE validate_and_build(DraftPayloads[i])

T_QUESTION == <<"Q","?">>
T_BLANK == <<" "," ">>

FollowupPayloads ==
    <<JDict([k \in {"question"} |-> JStr(T_QUESTION)]),
      JDict([k \in {"question"} |-> JStr(T_BLANK)]),
      JDict([k \in {} |-> JNull])>>

(* OpenAIProvider.generate_followup on the i-th answer: TRUE when it       *)
(* returns a question, FALSE when it raises                                *)
llm_followup_ok(i) ==
    IF i = 0 THEN FALSE
    ELSE LET payload == FollowupPayloads[i]
             q == DictGet(payload, "question", JStr(<<>>))
         IN payload.t = "dict" /\ q.t = "str" /\ Strip(q.v) # <<>>

(* the draft the provider of tests/test_engine.py extracts *)
T_DEMO == <<"D","e","m","o">>
T_SHIP_MVP == <<"S","h","i","p"," ","M","V","P">>
T_SEED == <<"s","e","e","d">>
T_MISSING == <<"m","i","s","s","i","n","g">>

FakeDraft ==
    [name \in RequiredFieldSet |->
        CASE name = "project_name" -> FieldCandidate(T_DEMO, 100, T_SEED)
          [] name = "primary_goal" -> FieldCandidate(T_SHIP_MVP, 90, T_SEED)
          [] OTHER -> FieldCandidate(<<>>, 0, T_MISSING)]

(* the draft the LLM-flagged provider of tests/test_cli_generation_path.py *)
(* and tests/test_llm_spec_generation.py extracts: "Demo", "CLI tool",     *)
(* "Generate specs", "Developers", "Prompt text", "SPEC markdown",         *)
(* "Python 3.10+", "No GUI", each at 1.0                                   *)
SeedDraft ==
    [name \in RequiredFieldSet |->
        CASE name = "project_name" -> FieldCandidate(T_DEMO, 100, T_SEED)
          [] name = "project_type" -> FieldCandidate(CLI_TOOL, 100, T_SEED)
          [] name = "primary_goal" -> FieldCandidate(<<"G","e","n","e","r","a","t","e"," ","s","p","e","c","s">>, 100, T_SEED)
          [] name = "target_users" -> FieldCandidate(<<"D","e","v","e","l","o","p","e","r","s">>, 100, T_SEED)
          [] name = "inputs" -> FieldCandidate(<<"P","r","o","m","p","t"," ","t","e","x","t">>, 100, T_SEED)
          [] name = "outputs" -> FieldCandidate(<<"S","P","E","C"," ","m","a","r","k","d","o","w","n">>, 100, T_SEED)
          [] name = "constraints" -> FieldCandidate(<<"P","y","t","h","o","n"," ","3",".","1","0","+">>, 100, T_SEED)
          [] OTHER -> FieldCandidate(<<"N","o"," ","G","U","I">>, 100, T_SEED)]

(* what that provider's generate_spec_markdown returns:                    *)
(* "# Project Specification\n\nLLM Output\n"                              *)
FakeSpecMarkdown == <<"#"," ","P","r","o","j","e","c","t"," ","S","p","e","c","i","f","i","c","a","t","i","o","n","\n","\n","L","L","M"," ","O","u","t","p","u","t","\n">>

----------------------------------------------------------------------------
(* the inputs of a run *)

P_EMPTY == <<>>
P_BLANK == <<" ","\n"," ">>
P_BUILD_SOMETHING == <<"B","u","i","l","d"," ","s","o","m","e","t","h","i","n","g">>
P_CLI == <<" ","B","u","i","l","d"," ","a"," ","C","L","I"," ","t","o","o","l"," ">>
P_FREE_TYPE == <<"T","y","p","e",":"," ","g","i","z","m","o","\n","G","o","a","l",":"," ","s","h","i","p"," ","i","t",".">>
P_NO_TYPE == <<"N","a","m","e",":"," ","D","e","m","o","\n","G","o","a","l",":"," ","S","h","i","p"," ","a"," ","C","L","I","\n","U","s","e","r","s",":"," ","D","e","v","s","\n","I","n","p","u","t","s",":"," ","a","r","g","s","\n","O","u","t","p","u","t","s",":"," ","r","e","p","o","r","t","\n","C","o","n","s","t","r","a","i","n","t","s",":"," ","n","o","n","e","\n","N","o","n","-","g","o","a","l","s",":"," ","G","U","I","\n">>
P_EXPLICIT ==
    <<"P","r","o","j","e","c","t"," ","N","a","m","e",":"," ","C","S","V"," ","G","u","a","r","d","\n","P","r","o","j","e","c","t"," ","T","y","p","e",":"," ","C","L","I"," ","t","o","o","l","\n","P","r","i","m","a","r","y"," ","G","o","a","l",":"," ","V","a","l","i","d","a","t","e"," ","c","s","v"," ","f","i","l","e","s",".","\n","T","a","r","g","e","t"," ","U","s","e","r","s",":"," ","D","e","v","e","l","o","p","e","r","s",".","\n","I","n","p","u","t","s",":"," ","C","L","I"," ","a","r","g","s"," ","a","n","d"," ","f","i","l","e"," ","p","a","t","h","s",".","\n","O","u","t","p","u","t","s",":"," ","C","o","n","s","o","l","e"," ","r","e","p","o","r","t",".","\n","C","o","n","s","t","r","a","i","n","t","s",":"," ","P","y","t","h","o","n"," ","3",".","1","0","+",".","\n","N","o","n","-","G","o","a","l","s",":"," ","N","o"," ","G","U","I",".","\n">>
P_IRRELEVANT == <<"i","r","r","e","l","e","v","a","n","t">>

Prompts == {P_EMPTY, P_BLANK, P_BUILD_SOMETHING, P_CLI, P_FREE_TYPE, P_NO_TYPE, P_EXPLICIT}

A_EMPTY == <<>>
A_BLANK == <<" "," ">>
A_TEXT == <<" ","x"," "," ","y"," ">>
A_CLI_TOOL == <<"c","l","i"," "," ","T","O","O","L">>

Answers == {A_EMPTY, A_BLANK, A_TEXT, A_CLI_TOOL}

----------------------------------------------------------------------------
(* engine.py *)

R_INTERACTIVE_USER_ANSWER ==
    <<"i","n","t","e","r","a","c","t","i","v","e","_","u","s","e","r","_","a","n","s","w","e","r">>

FOLLOWUP_CONFIDENCE == 80
LLM_MAX_FOLLOWUPS == 3

(* faulty max_followups: the cap is 4 *)
max_followups_of_four(p) ==
    IF IsLLMProvider(p) THEN [capped |-> TRUE, n |-> LLM_MAX_FOLLOWUPS + 1]
    ELSE [capped |-> FALSE, n |-> 0]

(* max_followups: capped is FALSE for None *)
max_followups(p) ==
    IF IsLLMProvider(p) THEN [capped |-> TRUE, n |-> LLM_MAX_FOLLOWUPS]
    ELSE [capped |-> FALSE, n |-> 0]

CapReached(p, n) == max_followups(p).capped /\ n >= max_followups(p).n

(* faulty needs_answer: the threshold of missing_fields, 0.5, is used *)
needs_answer_below_half(candidate) ==
    Strip(candidate.value) = <<>> \/ candidate.confidence < MinConfidence

needs_answer(candidate) ==
    Strip(candidate.value) = <<>> \/ candidate.confidence < FOLLOWUP_CONFIDENCE

(* faulty loop body: an empty answer is not skipped *)
ApplyAnswer_without_skip(d, field_name, raw_answer) ==
    LET normalized == normalize_user_field_value(field_name, Strip(raw_answer))
    IN SetAttr(d, field_name,
               FieldCandidate(normalized[1], normalized[2], R_INTERACTIVE_USER_ANSWER))

(* faulty loop body: the candidate is updated in place, keeping its rationale *)
ApplyAnswer_in_place(d, field_name, raw_answer) ==
    LET stripped == Strip(raw_answer)
        normalized == normalize_user_field_value(field_name, stripped)
    IN IF stripped = <<>> THEN d
       ELSE SetAttr(d, field_name,
                    FieldCandidate(normalized[1], normalized[2], d[field_name].rationale))

(* the loop body after the question was asked: answer = ask_fn(prompt) *)
ApplyAnswer(d, field_name, raw_answer) ==
    LET stripped == Strip(raw_answer)
        normalized == normalize_user_field_value(field_name, stripped)
    IN IF stripped = <<>> THEN d
       ELSE SetAttr(d, field_name,
                    FieldCandidate(normalized[1], normalized[2], R_INTERACTIVE_USER_ANSWER))

Field == REQUIRED_FIELDS[idx]

NoMessage == [kind |-> "none", fields |-> <<>>]

(* an exception leaving build_spec_draft: main() reports it and exits 3 *)
Raise ==
    /\ pc' = "exit"
    /\ exit_code' = 3
    /\ stderr' = Append(stderr, [kind |-> "internal_error", fields |-> <<>>])

(* faulty _run_generate: the prompt is not stripped before the empty test *)
RunGenerate_without_strip ==
    /\ pc = "run_generate"
    /\ prompt' = prompt
    /\ IF prompt = <<>>
       THEN /\ pc' = "exit"
            /\ exit_code' = 2
            /\ stderr' = Append(stderr, [kind |-> "invalid_input", fields |-> <<>>])
       ELSE /\ pc' = "extract"
            /\ UNCHANGED <<exit_code, stderr>>
    /\ UNCHANGED <<provider, interactive, draft, idx, followups_asked, asked, answers,
                   built, missing_fields, ambiguous_fields, written,
                   nf_field, nf_value, nf_result, calls, cj_vars, md_vars, rc_vars>>

(* cli._run_generate up to the call of _generate_spec *)
RunGenerate ==
    /\ pc = "run_generate"
    /\ prompt' = Strip(prompt)
    /\ IF Strip(prompt) = <<>>
       THEN /\ pc' = "exit"
            /\ exit_code' = 2
            /\ stderr' = Append(stderr, [kind |-> "invalid_input", fields |-> <<>>])
       ELSE \E constructed \in BOOLEAN :
               IF provider = "openai" /\ ~constructed
               THEN /\ pc' = "exit"
                    /\ exit_code' = 3
                    /\ stderr' = Append(stderr, [kind |-> "internal_error", fields |-> <<>>])
               ELSE /\ pc' = "extract"
                    /\ UNCHANGED <<exit_code, stderr>>
    /\ UNCHANGED <<provider, interactive, draft, idx, followups_asked, asked, answers,
                   built, missing_fields, ambiguous_fields, written,
                   nf_field, nf_value, nf_result, calls, cj_vars, md_vars, rc_vars>>

(* cli._run_guided_generate up to the prompt question: the provider choice *)
GuidedProvider ==
    /\ pc = "guided_generate"
    /\ \E key_valid \in BOOLEAN, constructed \in BOOLEAN :
          IF provider = "openai" /\ ~key_valid
          THEN /\ pc' = "exit"
               /\ exit_code' = 3
               /\ UNCHANGED stderr
          ELSE IF provider = "openai" /\ ~constructed
          THEN /\ pc' = "exit"
               /\ exit_code' = 3
               /\ stderr' = Append(stderr, [kind |-> "internal_error", fields |-> <<>>])
          ELSE /\ pc' = "guided_prompt"
               /\ UNCHANGED <<exit_code, stderr>>
    /\ UNCHANGED <<provider, interactive, prompt, draft, idx, followups_asked, asked,
                   answers, built, missing_fields, ambiguous_fields, written,
                   nf_field, nf_value, nf_result, calls, cj_vars, md_vars, rc_vars>>

(* cli._run_guided_generate: the prompt is typed, then _generate_spec is called *)
GuidedPrompt ==
    /\ pc = "guided_prompt"
    /\ \E typed \in Prompts :
          /\ prompt' = Strip(typed)
          /\ IF Strip(typed) = <<>>
             THEN /\ pc' = "exit"
                  /\ exit_code' = 2
                  /\ stderr' = Append(stderr, [kind |-> "prompt_required", fields |-> <<>>])
             ELSE /\ pc' = "extract"
                  /\ UNCHANGED <<exit_code, stderr>>
    /\ UNCHANGED <<provider, interactive, draft, idx, followups_asked, asked, answers,
                   built, missing_fields, ambiguous_fields, written,
                   nf_field, nf_value, nf_result, calls, cj_vars, md_vars, rc_vars>>

(* faulty extraction: a failed LLM extraction falls back to the heuristic parser *)
Extract_with_fallback ==
    /\ pc = "extract"
    /\ calls' = Append(calls, "extract_requirements")
    /\ \E i \in 0..Len(DraftPayloads) :
          /\ (provider # "openai" => i = 0)
          /\ draft' = CASE provider = "fake" -> FakeDraft
                         [] provider = "fake_llm" -> SeedDraft
                         [] provider = "openai" /\ llm_draft(i).ok -> llm_draft(i).draft
                         [] OTHER -> parse_prompt(prompt)
    /\ pc' = IF interactive THEN "loop" ELSE "normalize"
    /\ UNCHANGED <<provider, interactive, prompt, idx, followups_asked, asked, answers,
                   built, missing_fields, ambiguous_fields, exit_code, stderr, written,
                   nf_field, nf_value, nf_result, cj_vars, md_vars, rc_vars>>

(* build_spec_draft: selected_provider.extract_requirements(prompt) *)
Extract ==
    /\ pc = "extract"
    /\ calls' = Append(calls, "extract_requirements")
    /\ \E i \in 0..Len(DraftPayloads) :
          LET r == CASE provider = "local" -> [ok |-> TRUE, draft |-> parse_prompt(prompt)]
                     [] provider = "fake" -> [ok |-> TRUE, draft |-> FakeDraft]
                     [] provider = "fake_llm" -> [ok |-> TRUE, draft |-> SeedDraft]
                     [] provider = "openai" -> llm_draft(i)
          IN /\ (provider # "openai" => i = 0)
             /\ IF r.ok
                THEN /\ draft' = r.draft
                     /\ pc' = IF interactive THEN "loop" ELSE "normalize"
                     /\ UNCHANGED <<exit_code, stderr>>
                ELSE /\ Raise
                     /\ UNCHANGED draft
    /\ UNCHANGED <<provider, interactive, prompt, idx, followups_asked, asked, answers,
                   built, missing_fields, ambiguous_fields, written,
                   nf_field, nf_value, nf_result, cj_vars, md_vars, rc_vars>>

(* _resolve_gaps_interactively: the cap is reached, break *)
LoopBreak ==
    /\ pc = "loop" /\ idx <= Len(REQUIRED_FIELDS)
    /\ CapReached(provider, followups_asked)
    /\ pc' = "normalize"
    /\ UNCHANGED <<provider, interactive, prompt, draft, idx, followups_asked, asked,
                   answers, built, missing_fields, ambiguous_fields, exit_code, stderr,
                   written, nf_field, nf_value, nf_result, calls, cj_vars, md_vars, rc_vars>>

(* the field needs no answer, continue *)
LoopSkip ==
    /\ pc = "loop" /\ idx <= Len(REQUIRED_FIELDS)
    /\ ~CapReached(provider, followups_asked)
    /\ ~needs_answer(draft[Field])
    /\ idx' = idx + 1
    /\ UNCHANGED <<pc, provider, interactive, prompt, draft, followups_asked, asked,
                   answers, built, missing_fields, ambiguous_fields, exit_code, stderr,
                   written, nf_field, nf_value, nf_result, calls, cj_vars, md_vars, rc_vars>>

(* the follow-up is generated and asked, the answer applied *)
LoopAsk ==
    /\ pc = "loop" /\ idx <= Len(REQUIRED_FIELDS)
    /\ calls' = Append(calls, "generate_followup")
    /\ ~CapReached(provider, followups_asked)
    /\ needs_answer(draft[Field])
    /\ \E i \in 1..Len(FollowupPayloads), raw_answer \in Answers :
          /\ (provider = "openai" => llm_followup_ok(i))
          /\ (provider # "openai" => i = 1)
          /\ followups_asked' = followups_asked + 1
          /\ asked' = Append(asked, Field)
          /\ answers' = Append(answers, raw_answer)
          /\ draft' = ApplyAnswer(draft, Field, raw_answer)
          /\ idx' = idx + 1
    /\ UNCHANGED <<pc, provider, interactive, prompt, built, missing_fields,
                   ambiguous_fields, exit_code, stderr, written,
                   nf_field, nf_value, nf_result, cj_vars, md_vars, rc_vars>>

(* generate_followup raises: the call failed or the question is empty *)
LoopFollowupFails ==
    /\ pc = "loop" /\ idx <= Len(REQUIRED_FIELDS)
    /\ calls' = Append(calls, "generate_followup")
    /\ ~CapReached(provider, followups_asked)
    /\ needs_answer(draft[Field])
    /\ provider = "openai"
    /\ \E i \in 0..Len(FollowupPayloads) : ~llm_followup_ok(i)
    /\ Raise
    /\ UNCHANGED <<provider, interactive, prompt, draft, idx, followups_asked, asked,
                   answers, built, missing_fields, ambiguous_fields, written,
                   nf_field, nf_value, nf_result, cj_vars, md_vars, rc_vars>>

(* the for loop is exhausted *)
LoopEnd ==
    /\ pc = "loop" /\ idx > Len(REQUIRED_FIELDS)
    /\ pc' = "normalize"
    /\ UNCHANGED <<provider, interactive, prompt, draft, idx, followups_asked, asked,
                   answers, built, missing_fields, ambiguous_fields, exit_code, stderr,
                   written, nf_field, nf_value, nf_result, calls, cj_vars, md_vars, rc_vars>>

(* faulty build_spec_draft: the two lists are computed before the          *)
(* normalization pass, from the draft it is given                           *)
Normalize_lists_first ==
    /\ pc = "normalize"
    /\ calls' = Append(calls, "normalize_spec")
    /\ \E i \in 0..Len(DraftPayloads) :
          /\ (provider # "openai" => i = 0)
          /\ IF provider = "openai" /\ ~llm_draft(i).ok
             THEN /\ Raise
                  /\ UNCHANGED <<draft, built, missing_fields, ambiguous_fields>>
             ELSE /\ draft' = IF provider = "openai" THEN llm_draft(i).draft ELSE draft
                  /\ built' = TRUE
                  /\ missing_fields' = MissingFieldsOf(draft)
                  /\ ambiguous_fields' = AmbiguousFieldsOf(draft)
                  /\ pc' = IF provider = "fake" THEN "returned" ELSE "generate_spec"
                  /\ UNCHANGED <<exit_code, stderr>>
    /\ UNCHANGED <<provider, interactive, prompt, idx, followups_asked, asked, answers,
                   written, nf_field, nf_value, nf_result, cj_vars, md_vars, rc_vars>>

(* draft = selected_provider.normalize_spec(draft); return BuildResult(...) *)
Normalize ==
    /\ pc = "normalize"
    /\ calls' = Append(calls, "normalize_spec")
    /\ \E i \in 0..Len(DraftPayloads) :
          LET r == IF provider = "openai" THEN llm_draft(i)
                   ELSE [ok |-> TRUE, draft |-> draft]
          IN /\ (provider # "openai" => i = 0)
             /\ IF r.ok
                THEN /\ draft' = r.draft
                     /\ built' = TRUE
                     /\ missing_fields' = MissingFieldsOf(r.draft)
                     /\ ambiguous_fields' = AmbiguousFieldsOf(r.draft)
                     /\ pc' = IF provider = "fake" THEN "returned" ELSE "generate_spec"
                     /\ UNCHANGED <<exit_code, stderr>>
                ELSE /\ Raise
                     /\ UNCHANGED <<draft, built, missing_fields, ambiguous_fields>>
    /\ UNCHANGED <<provider, interactive, prompt, idx, followups_asked, asked, answers,
                   written, nf_field, nf_value, nf_result, cj_vars, md_vars, rc_vars>>

(* faulty _generate_spec: the missing-field check does not return *)
GenerateSpec_without_return ==
    /\ pc = "generate_spec"
    /\ IF ~interactive /\ missing_fields # <<>>
       THEN stderr' = Append(stderr, [kind |-> "missing", fields |-> missing_fields])
       ELSE UNCHANGED stderr
    /\ \E as_json \in BOOLEAN :
          written' = Append(written, IF as_json THEN "json" ELSE "markdown")
    /\ exit_code' = 0
    /\ pc' = "exit"
    /\ UNCHANGED <<provider, interactive, prompt, draft, idx, followups_asked, asked,
                   answers, built, missing_fields, ambiguous_fields,
                   nf_field, nf_value, nf_result, calls, cj_vars, md_vars, rc_vars>>

(* cli._generate_spec after build_spec_draft, and _run_generate's return *)
GenerateSpec ==
    /\ pc = "generate_spec"
    /\ IF ~interactive /\ missing_fields # <<>>
       THEN /\ stderr' = Append(stderr, [kind |-> "missing", fields |-> missing_fields])
            /\ exit_code' = 1
            /\ UNCHANGED written
       ELSE /\ \E as_json \in BOOLEAN :
                  written' = Append(written, IF as_json THEN "json" ELSE "markdown")
            /\ exit_code' = 0
            /\ UNCHANGED stderr
    /\ pc' = "exit"
    /\ UNCHANGED <<provider, interactive, prompt, draft, idx, followups_asked, asked,
                   answers, built, missing_fields, ambiguous_fields,
                   nf_field, nf_value, nf_result, calls, cj_vars, md_vars, rc_vars>>

NoExit == 0 - 1

NoCall ==
    /\ cj_stage = "none"
    /\ cj_max_retries = MAX_RETRIES
    /\ cj_attempt = 0
    /\ cj_log = <<>>
    /\ cj_payload = 0
    /\ cj_observer = FALSE
    /\ cj_events = <<>>

NoNormalize == nf_field = "project_name" /\ nf_value = <<>> /\ nf_result = <<>>

(* Optional[str]: None, or a str *)
None == <<>>
Some(s) == <<s>>

ENV_NAMES == {"OPENROUTER_API_KEY", "OPENAI_API_KEY"}

NoConfig ==
    /\ rc_provider_name = None
    /\ rc_api_key = None
    /\ rc_environ = [name \in ENV_NAMES |-> None]
    /\ rc_result = <<>>

NoDocument == md_content = <<>> /\ md_errors = <<>> /\ md_source = <<>>

Init ==
    /\ provider \in {"local", "openai", "fake"}
    /\ interactive \in BOOLEAN
    /\ IF provider = "fake"
       THEN pc = "extract" /\ prompt = P_IRRELEVANT
       ELSE \/ pc = "run_generate" /\ prompt \in Prompts
            \/ pc = "guided_generate" /\ prompt = <<>> /\ interactive = TRUE
    /\ draft = <<>>
    /\ idx = 1
    /\ followups_asked = 0
    /\ asked = <<>>
    /\ answers = <<>>
    /\ built = FALSE
    /\ missing_fields = <<>>
    /\ ambiguous_fields = <<>>
    /\ exit_code = NoExit
    /\ stderr = <<>>
    /\ written = <<>>
    /\ calls = <<>>
    /\ nf_field = "project_name"
    /\ nf_value = <<>>
    /\ nf_result = <<>>
    /\ NoCall
    /\ NoDocument
    /\ NoConfig

Next ==
    \/ RunGenerate
    \/ GuidedProvider
    \/ GuidedPrompt
    \/ Extract
    \/ LoopBreak
    \/ LoopSkip
    \/ LoopAsk
    \/ LoopFollowupFails
    \/ LoopEnd
    \/ Normalize
    \/ GenerateSpec

Spec == Init /\ [][Next]_vars

----------------------------------------------------------------------------
(* normalize_user_field_value on its own: one call, then a second call on  *)
(* the value the first returned                                            *)

MaxAnswerLen == 3

AnswerChars == {" ", "x", "\n"}

RECURSIVE StringsOfLen(_)
StringsOfLen(n) ==
    IF n = 0 THEN {<<>>}
    ELSE {Append(s, c) : s \in StringsOfLen(n - 1), c \in AnswerChars}

ShortAnswers == UNION {StringsOfLen(n) : n \in 0..MaxAnswerLen}

Upper(s) == [i \in 1..Len(s) |-> UpperChar(s[i])]

(* s with a tab after every space *)
RECURSIVE DoubleSpaces(_)
DoubleSpaces(s) ==
    IF s = <<>> THEN <<>>
    ELSE (IF Head(s) = " " THEN <<" ", "\t">> ELSE <<Head(s)>>) \o DoubleSpaces(Tail(s))

TypeSpellings ==
    UNION {{ProjectType[i],
            Lower(ProjectType[i]),
            Upper(ProjectType[i]),
            <<" ">> \o ProjectType[i] \o <<"\n">>,
            DoubleSpaces(Upper(ProjectType[i])),
            Append(ProjectType[i], "s"),
            Tail(ProjectType[i])} : i \in 1..Len(ProjectType)}

NormalizeInputs == ShortAnswers \cup TypeSpellings \cup Answers

Idle ==
    /\ provider = "local"
    /\ interactive = FALSE
    /\ prompt = <<>>
    /\ idx = 1
    /\ followups_asked = 0
    /\ asked = <<>>
    /\ answers = <<>>
    /\ built = FALSE
    /\ missing_fields = <<>>
    /\ ambiguous_fields = <<>>
    /\ exit_code = NoExit
    /\ stderr = <<>>
    /\ written = <<>>
    /\ calls = <<>>

InitNormalize ==
    /\ Idle
    /\ NoCall
    /\ NoDocument
    /\ NoConfig
    /\ pc = "normalize_call"
    /\ draft = <<>>
    /\ nf_field \in RequiredFieldSet
    /\ nf_value \in NormalizeInputs
    /\ nf_result = <<>>

NormalizeCall ==
    /\ pc = "normalize_call"
    /\ nf_result' = <<normalize_user_field_value(nf_field, nf_value)>>
    /\ pc' = "normalized"
    /\ UNCHANGED <<provider, interactive, prompt, draft, idx, followups_asked, asked,
                   answers, built, missing_fields, ambiguous_fields, exit_code, stderr,
                   written, nf_field, nf_value, calls, cj_vars, md_vars, rc_vars>>

NormalizeAgain ==
    /\ pc = "normalized"
    /\ nf_result' = Append(nf_result, normalize_user_field_value(nf_field, nf_result[1][1]))
    /\ pc' = "renormalized"
    /\ UNCHANGED <<provider, interactive, prompt, draft, idx, followups_asked, asked,
                   answers, built, missing_fields, ambiguous_fields, exit_code, stderr,
                   written, nf_field, nf_value, calls, cj_vars, md_vars, rc_vars>>

NextNormalize == NormalizeCall \/ NormalizeAgain

SpecNormalize == InitNormalize /\ [][NextNormalize]_vars

----------------------------------------------------------------------------
(* SpecDraft.missing_fields / ambiguous_fields on drafts of any content    *)

CandidateValues == {<<>>, <<" ">>, <<"x">>, <<" ", "x">>}

Confidences == 0..100

InitLists ==
    /\ Idle
    /\ NoCall
    /\ NoDocument
    /\ NoConfig
    /\ pc = "lists_call"
    /\ \E k \in 0..Len(REQUIRED_FIELDS), v \in CandidateValues, c \in Confidences,
          other \in {DefaultCandidate, FieldCandidate(<<"x">>, 60, <<>>)} :
          draft = [name \in RequiredFieldSet |->
                      IF \E i \in 1..k : REQUIRED_FIELDS[i] = name
                      THEN FieldCandidate(v, c, <<>>) ELSE other]
    /\ nf_field = "project_name"
    /\ nf_value = <<>>
    /\ nf_result = <<>>

ComputeLists ==
    /\ pc = "lists_call"
    /\ missing_fields' = MissingFieldsOf(draft)
    /\ ambiguous_fields' = AmbiguousFieldsOf(draft)
    /\ pc' = "lists_done"
    /\ UNCHANGED <<provider, interactive, prompt, draft, idx, followups_asked, asked,
                   answers, built, exit_code, stderr, written,
                   nf_field, nf_value, nf_result, calls, cj_vars, md_vars, rc_vars>>

SpecLists == InitLists /\ [][ComputeLists]_vars

----------------------------------------------------------------------------
(* OpenAIProvider._call_json and its three callers *)

(* the largest retry budget an OpenAIProvider is constructed with here *)
MaxRetries == 2

CJ_STAGES == {"parse_prompt", "generate_followup", "normalize"}

(* what makes one attempt fail: responses.create raises, output_text is    *)
(* empty, json.loads raises                                                *)
CJ_FAILURES == {"transport_error", "empty_response", "malformed_json"}

Event(kind, n) == [kind |-> kind, n |-> n]

Answers_of(stage) ==
    IF stage = "generate_followup" THEN 1..Len(FollowupPayloads)
                                   ELSE 1..Len(DraftPayloads)

(* the dict _emit_call_event hands to the observer, without the fields    *)
(* that carry the latency, the token counts and the cost                   *)
CallEvent(stage, retry_count, schema_valid) ==
    [stage |-> stage, retry_count |-> retry_count, schema_valid |-> schema_valid]

(* _emit_call_event: nothing without an observer, else one call of it *)
emit_call_event(observer, events, stage, retry_count, schema_valid) ==
    IF ~observer THEN events
    ELSE Append(events, CallEvent(stage, retry_count, schema_valid))

InitCallJson ==
    /\ Idle
    /\ NoNormalize
    /\ NoDocument
    /\ NoConfig
    /\ draft = <<>>
    /\ pc = "cj_call"
    /\ cj_stage \in CJ_STAGES
    /\ cj_max_retries \in 0..MaxRetries
    /\ cj_attempt = 0
    /\ cj_log = <<>>
    /\ cj_payload = 0
    /\ cj_observer \in BOOLEAN
    /\ cj_events = <<>>

(* one pass of the loop that ends in `return payload` *)
CallJsonSucceeds ==
    /\ pc = "cj_call"
    /\ \E i \in Answers_of(cj_stage) : cj_payload' = i
    /\ cj_log' = cj_log \o <<Event("attempt_ok", cj_attempt),
                             Event("emit_schema_valid", cj_attempt)>>
    /\ cj_events' = emit_call_event(cj_observer, cj_events, cj_stage, cj_attempt, TRUE)
    /\ pc' = "cj_returned"
    /\ UNCHANGED <<provider, interactive, prompt, draft, idx, followups_asked, asked,
                   answers, built, missing_fields, ambiguous_fields, exit_code, stderr,
                   written, nf_field, nf_value, nf_result, calls,
                   cj_stage, cj_max_retries, cj_attempt, cj_observer, md_vars, rc_vars>>

CallJsonFails_one_more_attempt ==
    /\ pc = "cj_call"
    /\ \E failure \in CJ_FAILURES :
          IF cj_attempt > cj_max_retries
          THEN /\ cj_log' = cj_log \o <<Event(failure, cj_attempt),
                                        Event("emit_schema_invalid", cj_attempt)>>
               /\ cj_events' = emit_call_event(cj_observer, cj_events, cj_stage,
                                                cj_attempt, FALSE)
               /\ pc' = "cj_raised"
               /\ UNCHANGED cj_attempt
          ELSE /\ cj_log' = cj_log \o <<Event(failure, cj_attempt),
                                        Event("sleep", RETRY_DELAY)>>
               /\ UNCHANGED cj_events
               /\ cj_attempt' = cj_attempt + 1
               /\ pc' = "cj_call"
    /\ UNCHANGED <<provider, interactive, prompt, draft, idx, followups_asked, asked,
                   answers, built, missing_fields, ambiguous_fields, exit_code, stderr,
                   written, nf_field, nf_value, nf_result, calls,
                   cj_stage, cj_max_retries, cj_payload, cj_observer, md_vars, rc_vars>>

CallJsonFails_emits_every_attempt ==
    /\ pc = "cj_call"
    /\ \E failure \in CJ_FAILURES :
          IF cj_attempt >= cj_max_retries
          THEN /\ cj_log' = cj_log \o <<Event(failure, cj_attempt),
                                        Event("emit_schema_invalid", cj_attempt)>>
               /\ cj_events' = emit_call_event(cj_observer, cj_events, cj_stage,
                                                cj_attempt, FALSE)
               /\ pc' = "cj_raised"
               /\ UNCHANGED cj_attempt
          ELSE /\ cj_log' = cj_log \o <<Event(failure, cj_attempt),
                                        Event("emit_schema_invalid", cj_attempt),
                                        Event("sleep", RETRY_DELAY)>>
               /\ cj_events' = emit_call_event(cj_observer, cj_events, cj_stage,
                                                cj_attempt, FALSE)
               /\ cj_attempt' = cj_attempt + 1
               /\ pc' = "cj_call"
    /\ UNCHANGED <<provider, interactive, prompt, draft, idx, followups_asked, asked,
                   answers, built, missing_fields, ambiguous_fields, exit_code, stderr,
                   written, nf_field, nf_value, nf_result, calls,
                   cj_stage, cj_max_retries, cj_payload, cj_observer, md_vars, rc_vars>>

(* one pass of the loop that ends in the except clause: the last pass      *)
(* emits the event and leaves the loop for the raise, an earlier one       *)
(* sleeps and continues                                                    *)
CallJsonFails ==
    /\ pc = "cj_call"
    /\ \E failure \in CJ_FAILURES :
          IF cj_attempt >= cj_max_retries
          THEN /\ cj_log' = cj_log \o <<Event(failure, cj_attempt),
                                        Event("emit_schema_invalid", cj_attempt)>>
               /\ cj_events' = emit_call_event(cj_observer, cj_events, cj_stage,
                                                cj_attempt, FALSE)
               /\ pc' = "cj_raised"
               /\ UNCHANGED cj_attempt
          ELSE /\ cj_log' = cj_log \o <<Event(failure, cj_attempt),
                                        Event("sleep", RETRY_DELAY)>>
               /\ UNCHANGED cj_events
               /\ cj_attempt' = cj_attempt + 1
               /\ pc' = "cj_call"
    /\ UNCHANGED <<provider, interactive, prompt, draft, idx, followups_asked, asked,
                   answers, built, missing_fields, ambiguous_fields, exit_code, stderr,
                   written, nf_field, nf_value, nf_result, calls,
                   cj_stage, cj_max_retries, cj_payload, cj_observer, md_vars, rc_vars>>

(* the caller's use of the returned payload: extract_requirements and      *)
(* normalize_spec validate it and build the draft, generate_followup       *)
(* takes the question; a ProviderError raised here is outside the loop     *)
CallJsonCaller ==
    /\ pc = "cj_returned"
    /\ IF cj_stage = "generate_followup"
       THEN /\ pc' = IF llm_followup_ok(cj_payload) THEN "cj_done" ELSE "cj_rejected"
            /\ UNCHANGED draft
       ELSE IF llm_draft(cj_payload).ok
            THEN /\ pc' = "cj_done"
                 /\ draft' = llm_draft(cj_payload).draft
            ELSE /\ pc' = "cj_rejected"
                 /\ UNCHANGED draft
    /\ UNCHANGED <<provider, interactive, prompt, idx, followups_asked, asked,
                   answers, built, missing_fields, ambiguous_fields, exit_code, stderr,
                   written, nf_field, nf_value, nf_result, calls, cj_vars, md_vars, rc_vars>>

NextCallJson == CallJsonSucceeds \/ CallJsonFails \/ CallJsonCaller

SpecCallJson == InitCallJson /\ [][NextCallJson]_vars

----------------------------------------------------------------------------
(* resolve_llm_client_config and _provider_to_client_config                *)

(* "https://openrouter.ai/api/v1" *)
OPENROUTER_BASE_URL == <<"h","t","t","p","s",":","/","/","o","p","e","n","r","o","u","t","e","r",".","a","i","/","a","p","i","/","v","1">>

T_OPENROUTER == <<"o","p","e","n","r","o","u","t","e","r">>
T_OPENAI == <<"o","p","e","n","a","i">>

(* the truth value of an Optional[str]: None and "" are false *)
Truthy(x) == x # None /\ x[1] # <<>>

(* os.getenv(name, "") *)
GetEnv(environ, name) == IF environ[name] = None THEN <<>> ELSE environ[name][1]

(* a returned dict, and a raised ProviderError *)
Returned(config) == [ok |-> TRUE, config |-> config, error |-> "none"]
ProviderError(message) == [ok |-> FALSE, config |-> <<>>, error |-> message]

OpenRouterConfig(key) ==
    [k \in {"api_key", "base_url"} |-> IF k = "api_key" THEN key ELSE OPENROUTER_BASE_URL]

OpenAIConfig(key) == [k \in {"api_key"} |-> key]

provider_to_client_config(provider_name, api_key) ==
    IF Strip(api_key) = <<>> THEN ProviderError("API key is empty.")
    ELSE IF Lower(Strip(provider_name)) = T_OPENROUTER
    THEN Returned(OpenRouterConfig(Strip(api_key)))
    ELSE IF Lower(Strip(provider_name)) = T_OPENAI
    THEN Returned(OpenAIConfig(Strip(api_key)))
    ELSE ProviderError("Unsupported provider")

(* faulty precedence: OPENAI_API_KEY is looked up before OPENROUTER_API_KEY *)
resolve_llm_client_config_openai_first(provider_name, api_key, environ) ==
    IF Truthy(provider_name) /\ Truthy(api_key)
    THEN provider_to_client_config(provider_name[1], api_key[1])
    ELSE IF Strip(GetEnv(environ, "OPENAI_API_KEY")) # <<>>
    THEN Returned(OpenAIConfig(Strip(GetEnv(environ, "OPENAI_API_KEY"))))
    ELSE IF Strip(GetEnv(environ, "OPENROUTER_API_KEY")) # <<>>
    THEN Returned(OpenRouterConfig(Strip(GetEnv(environ, "OPENROUTER_API_KEY"))))
    ELSE ProviderError("Missing API key.")

resolve_llm_client_config(provider_name, api_key, environ) ==
    IF Truthy(provider_name) /\ Truthy(api_key)
    THEN provider_to_client_config(provider_name[1], api_key[1])
    ELSE IF Strip(GetEnv(environ, "OPENROUTER_API_KEY")) # <<>>
    THEN Returned(OpenRouterConfig(Strip(GetEnv(environ, "OPENROUTER_API_KEY"))))
    ELSE IF Strip(GetEnv(environ, "OPENAI_API_KEY")) # <<>>
    THEN Returned(OpenAIConfig(Strip(GetEnv(environ, "OPENAI_API_KEY"))))
    ELSE ProviderError("Missing API key.")

(* provider names: None, "", "openai", "openrouter", " OpenRouter ",       *)
(* "azure", "  "                                                           *)
ProviderNames == {None, Some(<<>>), Some(T_OPENAI), Some(T_OPENROUTER), Some(<<" ","O","p","e","n","R","o","u","t","e","r"," ">>), Some(<<"a","z","u","r","e">>), Some(<<" "," ">>)}

(* keys: None, "", "  ", "sk-a", " sk-a " *)
ApiKeys == {None, Some(<<>>), Some(<<" "," ">>), Some(<<"s","k","-","a">>), Some(<<" ","s","k","-","a"," ">>)}

(* an environment variable: unset, "", " ", "or-key", " oa-key " *)
EnvValues == {None, Some(<<>>), Some(<<" ">>), Some(<<"o","r","-","k","e","y">>), Some(<<" ","o","a","-","k","e","y"," ">>)}

InitClientConfig ==
    /\ Idle
    /\ NoNormalize
    /\ NoCall
    /\ NoDocument
    /\ draft = <<>>
    /\ pc = "rc_call"
    /\ rc_provider_name \in ProviderNames
    /\ rc_api_key \in ApiKeys
    /\ rc_environ \in [ENV_NAMES -> EnvValues]
    /\ rc_result = <<>>

(* client_config = resolve_llm_client_config(provider_name, api_key) *)
ResolveClientConfig ==
    /\ pc = "rc_call"
    /\ rc_result' = <<resolve_llm_client_config(rc_provider_name, rc_api_key, rc_environ)>>
    /\ pc' = "rc_done"
    /\ UNCHANGED <<provider, interactive, prompt, draft, idx, followups_asked, asked,
                   answers, built, missing_fields, ambiguous_fields, exit_code, stderr,
                   written, nf_field, nf_value, nf_result, calls, cj_vars, md_vars,
                   rc_provider_name, rc_api_key, rc_environ>>

NextClientConfig == ResolveClientConfig

SpecClientConfig == InitClientConfig /\ [][NextClientConfig]_vars

----------------------------------------------------------------------------
(* non-interactive runs of `generate` with the heuristic provider *)

(* label lines: the long and the short form of each label *)
LABEL_LONG ==
    [name \in RequiredFieldSet |->
        CASE name = "project_name" -> <<"P","r","o","j","e","c","t"," ","N","a","m","e">>
          [] name = "project_type" -> <<"P","r","o","j","e","c","t"," ","T","y","p","e">>
          [] name = "primary_goal" -> <<"P","r","i","m","a","r","y"," ","G","o","a","l">>
          [] name = "target_users" -> <<"T","a","r","g","e","t"," ","U","s","e","r","s">>
          [] name = "inputs" -> <<"I","n","p","u","t","s">>
          [] name = "outputs" -> <<"O","u","t","p","u","t","s">>
          [] name = "constraints" -> <<"C","o","n","s","t","r","a","i","n","t","s">>
          [] name = "non_goals" -> <<"N","o","n","-","G","o","a","l","s">>]

LABEL_SHORT ==
    [name \in RequiredFieldSet |->
        CASE name = "project_name" -> <<"n","a","m","e">>
          [] name = "project_type" -> <<"T","Y","P","E">>
          [] name = "primary_goal" -> <<"G","o","a","l">>
          [] name = "target_users" -> <<"U","s","e","r","s">>
          [] name = "inputs" -> <<"I","n","p","u","t">>
          [] name = "outputs" -> <<"O","u","t","p","u","t">>
          [] name = "constraints" -> <<"C","o","n","s","t","r","a","i","n","t">>
          [] name = "non_goals" -> <<"n","o","n"," ","g","o","a","l">>]

V_OK == <<"o","k">>
V_SENTENCE == <<"d","o","n","e",".">>

(* label values: "ok", ".", "done.", ". .", "users: ." and " " *)
LabelValues == {V_OK, <<".">>, V_SENTENCE, <<"."," ",".">>, <<"u","s","e","r","s",":"," ",".">>, <<" ">>}

LabelLine(labels, name, f, v) == labels[name] \o <<":", " ">> \o (IF name = f THEN v ELSE V_OK) \o <<"\n">>

RECURSIVE JoinLabelLines(_, _, _, _)
JoinLabelLines(order, labels, f, v) ==
    IF order = <<>> THEN <<>>
    ELSE LabelLine(labels, Head(order), f, v) \o JoinLabelLines(Tail(order), labels, f, v)

Reverse(seq) == [i \in 1..Len(seq) |-> seq[Len(seq) + 1 - i]]

(* a prompt of eight label lines, in REQUIRED_FIELDS order or backwards,   *)
(* in which field f has value v and the other fields the value "ok"        *)
LabelPrompt(f, v, short, backwards) ==
    JoinLabelLines(IF backwards THEN Reverse(REQUIRED_FIELDS) ELSE REQUIRED_FIELDS,
                   IF short THEN LABEL_SHORT ELSE LABEL_LONG, f, v)

LabelPrompts ==
    {LabelPrompt(f, v, short, backwards) :
        f \in RequiredFieldSet, v \in LabelValues, short \in BOOLEAN, backwards \in BOOLEAN}


(* "an api", "rapid growth", "Web app with an API", "a website", "xyz qrs", *)
(* "Type: gizmo\nan api", "Type: .\na cli", "full stack api",              *)
(* "sdk for a daemon", "outer space", "my client"                          *)
KeywordPrompts == {<<"a","n"," ","a","p","i">>, <<"r","a","p","i","d"," ","g","r","o","w","t","h">>, <<"W","e","b"," ","a","p","p"," ","w","i","t","h"," ","a","n"," ","A","P","I">>, <<"a"," ","w","e","b","s","i","t","e">>, <<"x","y","z"," ","q","r","s">>, <<"T","y","p","e",":"," ","g","i","z","m","o","\n","a","n"," ","a","p","i">>, <<"T","y","p","e",":"," ",".","\n","a"," ","c","l","i">>, <<"f","u","l","l"," ","s","t","a","c","k"," ","a","p","i">>, <<"s","d","k"," ","f","o","r"," ","a"," ","d","a","e","m","o","n">>, <<"o","u","t","e","r"," ","s","p","a","c","e">>, <<"m","y"," ","c","l","i","e","n","t">>}

(* lines whose label or value holds another field's label: "Non-goal: X", *)
(* "Non-goal: X\nGoal: ship it", "Users: see name: Y",                     *)
(* "Project name: Alpha\nInputs: a file whose name: Y",                    *)
(* "Constraints: output: json only", "Surname: Bob", "Name:\nName: Real"   *)
OtherLabelPrompts == {<<"N","o","n","-","g","o","a","l",":"," ","X">>, <<"N","o","n","-","g","o","a","l",":"," ","X","\n","G","o","a","l",":"," ","s","h","i","p"," ","i","t">>, <<"U","s","e","r","s",":"," ","s","e","e"," ","n","a","m","e",":"," ","Y">>, <<"P","r","o","j","e","c","t"," ","n","a","m","e",":"," ","A","l","p","h","a","\n","I","n","p","u","t","s",":"," ","a"," ","f","i","l","e"," ","w","h","o","s","e"," ","n","a","m","e",":"," ","Y">>, <<"C","o","n","s","t","r","a","i","n","t","s",":"," ","o","u","t","p","u","t",":"," ","j","s","o","n"," ","o","n","l","y">>, <<"S","u","r","n","a","m","e",":"," ","B","o","b">>, <<"N","a","m","e",":","\n","N","a","m","e",":"," ","R","e","a","l">>}

HeuristicPrompts == Prompts \cup LabelPrompts \cup KeywordPrompts \cup OtherLabelPrompts

InitHeuristic ==
    /\ provider = "local"
    /\ interactive = FALSE
    /\ pc = "run_generate"
    /\ prompt \in HeuristicPrompts
    /\ draft = <<>>
    /\ idx = 1
    /\ followups_asked = 0
    /\ asked = <<>>
    /\ answers = <<>>
    /\ built = FALSE
    /\ missing_fields = <<>>
    /\ ambiguous_fields = <<>>
    /\ exit_code = NoExit
    /\ stderr = <<>>
    /\ written = <<>>
    /\ calls = <<>>
    /\ NoNormalize
    /\ NoCall
    /\ NoDocument
    /\ NoConfig

NextHeuristic == RunGenerate \/ Extract \/ Normalize \/ GenerateSpec

SpecHeuristic == InitHeuristic /\ [][NextHeuristic]_vars

----------------------------------------------------------------------------
(* calls of cli._generate_spec with a provider object, as the tests make   *)
(* them: no provider, the OpenAI provider, or a provider flagged           *)
(* is_llm_provider that also has a generate_spec_markdown method           *)

InitGenerateSpec ==
    /\ provider \in {"local", "openai", "fake_llm"}
    /\ interactive \in BOOLEAN
    /\ pc = "extract"
    /\ prompt \in (IF provider = "local" THEN {P_BUILD_SOMETHING, P_EXPLICIT}
                   ELSE {P_BUILD_SOMETHING})
    /\ draft = <<>>
    /\ idx = 1
    /\ followups_asked = 0
    /\ asked = <<>>
    /\ answers = <<>>
    /\ built = FALSE
    /\ missing_fields = <<>>
    /\ ambiguous_fields = <<>>
    /\ exit_code = NoExit
    /\ stderr = <<>>
    /\ written = <<>>
    /\ calls = <<>>
    /\ NoNormalize
    /\ NoCall
    /\ NoDocument
    /\ NoConfig

NextGenerateSpec ==
    \/ Extract
    \/ LoopBreak
    \/ LoopSkip
    \/ LoopAsk
    \/ LoopFollowupFails
    \/ LoopEnd
    \/ Normalize
    \/ GenerateSpec

SpecGenerateSpec == InitGenerateSpec /\ [][NextGenerateSpec]_vars

----------------------------------------------------------------------------
(* quality.py *)

EXPECTED_HEADINGS ==
    <<<<"#"," ","P","r","o","j","e","c","t"," ","S","p","e","c","i","f","i","c","a","t","i","o","n">>,
      <<"#","#"," ","1","."," ","O","v","e","r","v","i","e","w">>,
      <<"#","#"," ","2","."," ","P","r","o","b","l","e","m"," ","S","t","a","t","e","m","e","n","t">>,
      <<"#","#"," ","3","."," ","S","c","o","p","e">>,
      <<"#","#","#"," ","I","n"," ","S","c","o","p","e">>,
      <<"#","#","#"," ","O","u","t"," ","o","f"," ","S","c","o","p","e">>,
      <<"#","#"," ","4","."," ","F","u","n","c","t","i","o","n","a","l"," ","R","e","q","u","i","r","e","m","e","n","t","s">>,
      <<"#","#"," ","5","."," ","N","o","n","-","F","u","n","c","t","i","o","n","a","l"," ","R","e","q","u","i","r","e","m","e","n","t","s">>,
      <<"#","#"," ","6","."," ","I","n","p","u","t","s">>,
      <<"#","#"," ","7","."," ","O","u","t","p","u","t","s">>,
      <<"#","#"," ","8","."," ","C","o","n","s","t","r","a","i","n","t","s">>,
      <<"#","#"," ","9","."," ","A","s","s","u","m","p","t","i","o","n","s">>,
      <<"#","#"," ","1","0","."," ","A","c","c","e","p","t","a","n","c","e"," ","C","r","i","t","e","r","i","a">>>>

M_FIRST == <<"F","i","r","s","t"," ","n","o","n","-","e","m","p","t","y"," ","l","i","n","e"," ","m","u","s","t"," ","b","e"," ","'","#"," ","P","r","o","j","e","c","t"," ","S","p","e","c","i","f","i","c","a","t","i","o","n","'",".">>
M_HEADINGS == <<"H","e","a","d","i","n","g","s"," ","m","u","s","t"," ","m","a","t","c","h"," ","s","t","r","i","c","t"," ","r","e","q","u","i","r","e","d"," ","s","t","r","u","c","t","u","r","e"," ","a","n","d"," ","o","r","d","e","r","i","n","g",".">>
M_LINE == <<"L","i","n","e"," ">>
M_CONTAINS == <<" ","c","o","n","t","a","i","n","s"," ","n","o","n","-","l","i","s","t"," ","p","r","o","s","e"," ","o","r"," ","u","n","s","u","p","p","o","r","t","e","d"," ","f","o","r","m","a","t","t","i","n","g",":"," ">>

DigitChars == <<"0","1","2","3","4","5","6","7","8","9">>

(* str(n) of a natural number *)
RECURSIVE DecimalOf(_)
DecimalOf(n) ==
    IF n < 10 THEN <<DigitChars[n + 1]>>
    ELSE DecimalOf(n \div 10) \o <<DigitChars[(n % 10) + 1]>>

(* next((line.strip() for line in lines if line.strip()), "") *)
FirstNonEmpty(lines) ==
    IF \A i \in 1..Len(lines) : Strip(lines[i]) = <<>> THEN <<>>
    ELSE Strip(lines[MinOf({i \in 1..Len(lines) : Strip(lines[i]) # <<>>})])

StripAll(lines) == [i \in 1..Len(lines) |-> Strip(lines[i])]

(* [line.strip() for line in lines if line.strip().startswith("#")] *)
HeadingsOf(lines) == SelectSeq(StripAll(lines), LAMBDA line : line # <<>> /\ line[1] = "#")

(* faulty heading test: the order of the headings is not compared *)
HeadingsMatch_any_order(headings) ==
    /\ Len(headings) = Len(EXPECTED_HEADINGS)
    /\ {headings[i] : i \in 1..Len(headings)}
          = {EXPECTED_HEADINGS[i] : i \in 1..Len(EXPECTED_HEADINGS)}

(* headings == EXPECTED_HEADINGS *)
HeadingsMatch(headings) == headings = EXPECTED_HEADINGS

(* \d+\.\s at the start of line, the digits ending before index d *)
NumberedAt(line, d) ==
    /\ d > 1
    /\ d + 1 <= Len(line)
    /\ line[d] = "."
    /\ line[d + 1] \in Whitespace

(* faulty allowed_prefix: the whitespace after the dash is not required *)
AllowedPrefix_without_space(line) ==
    \/ line[1] = "#"
    \/ line[1] = "-"
    \/ NumberedAt(line, SkipWhile(line, 1, Digits))

(* allowed_prefix.match(line) for a non-empty stripped line: ^(#|-\s|\d+\.\s) *)
AllowedPrefix(line) ==
    \/ line[1] = "#"
    \/ Len(line) >= 2 /\ line[1] = "-" /\ line[2] \in Whitespace
    \/ NumberedAt(line, SkipWhile(line, 1, Digits))

LineError(index, line) == M_LINE \o DecimalOf(index) \o M_CONTAINS \o line

(* faulty loop: a blank line is not skipped, it is reported as well *)
BadLines_blank_reported(lines) ==
    {i \in 1..Len(lines) : Strip(lines[i]) = <<>> \/ ~AllowedPrefix(Strip(lines[i]))}

(* the 1-based numbers of the lines the loop reports *)
BadLines(lines) ==
    {i \in 1..Len(lines) : Strip(lines[i]) # <<>> /\ ~AllowedPrefix(Strip(lines[i]))}

ErrorsAt(lines, bad) ==
    [k \in 1..Cardinality(bad) |-> LineError(Nth(bad, k), Strip(lines[Nth(bad, k)]))]

ValidateLines(lines) ==
    (IF FirstNonEmpty(lines) # EXPECTED_HEADINGS[1] THEN <<M_FIRST>> ELSE <<>>)
    \o (IF ~HeadingsMatch(HeadingsOf(lines)) THEN <<M_HEADINGS>> ELSE <<>>)
    \o ErrorsAt(lines, BadLines(lines))

validate_spec_markdown(content) == ValidateLines(SplitLines(content))

(* the companion transform of the validator: a line that is blank or has   *)
(* an allowed prefix is kept as it is, any other line becomes a bullet     *)
CoerceLine(line) ==
    IF Strip(line) = <<>> THEN line
    ELSE IF AllowedPrefix(Strip(line)) THEN line
    ELSE <<"-", " ">> \o line

CoerceLines(lines) == [i \in 1..Len(lines) |-> CoerceLine(lines[i])]

----------------------------------------------------------------------------
(* renderer.py *)

(* the character U+0060, which a string of this notation cannot hold *)
BACKTICK == "backtick"

TOKENS_PERFORMANCE == {<<"p","e","r","f","o","r","m","a","n","c","e">>, <<"l","a","t","e","n","c","y">>, <<"t","h","r","o","u","g","h","p","u","t">>, <<"f","a","s","t">>}
TOKENS_RELIABILITY == {<<"r","e","l","i","a","b","l","e">>, <<"a","v","a","i","l","a","b","i","l","i","t","y">>, <<"u","p","t","i","m","e">>, <<"f","a","u","l","t">>}
TOKENS_SECURITY == {<<"s","e","c","u","r","i","t","y">>, <<"a","u","t","h">>, <<"e","n","c","r","y","p","t","i","o","n">>, <<"p","r","i","v","a","c","y">>}
TOKENS_MAINTAINABILITY == {<<"m","a","i","n","t","a","i","n">>, <<"r","e","a","d","a","b","l","e">>, <<"m","o","d","u","l","a","r">>, <<"t","e","s","t">>}

(* the parts of value.replace(";", ",").split(","), stripped, that are not *)
(* empty                                                                   *)
StrippedParts(parts) == SelectSeq(StripAll(parts), LAMBDA part : part # <<>>)

OrNoneSpecified(parts) == IF parts = <<>> THEN <<<<"N","o","n","e"," ","s","p","e","c","i","f","i","e","d",".">>>> ELSE parts

split_to_bullets(value) == OrNoneSpecified(StrippedParts(Runs(value, {",", ";"})))

default_functional_requirements(inputs, outputs, primary_goal) ==
    <<<<"T","h","e"," ","s","y","s","t","e","m"," ","S","H","A","L","L"," ","a","c","c","e","p","t"," ","a","n","d"," ","v","a","l","i","d","a","t","e"," ","t","h","e"," ","d","e","f","i","n","e","d"," ","i","n","p","u","t","s",":"," ">> \o inputs \o <<".">>,
      <<"T","h","e"," ","s","y","s","t","e","m"," ","S","H","A","L","L"," ","p","r","o","d","u","c","e"," ","o","u","t","p","u","t","s"," ","i","n"," ","t","h","e"," ","d","e","f","i","n","e","d"," ","f","o","r","m","a","t",":"," ">> \o outputs \o <<".">>,
      <<"T","h","e"," ","s","y","s","t","e","m"," ","S","H","A","L","L"," ","i","m","p","l","e","m","e","n","t"," ","b","e","h","a","v","i","o","r"," ","t","h","a","t"," ","d","i","r","e","c","t","l","y"," ","s","u","p","p","o","r","t","s"," ","t","h","i","s"," ","g","o","a","l",":"," ">> \o primary_goal \o <<".">>,
      <<"T","h","e"," ","s","y","s","t","e","m"," ","S","H","A","L","L"," ","r","e","t","u","r","n"," ","d","e","t","e","r","m","i","n","i","s","t","i","c"," ","r","e","s","u","l","t","s"," ","f","o","r"," ","i","d","e","n","t","i","c","a","l"," ","v","a","l","i","d"," ","i","n","p","u","t","s",".">>>>

AnyToken(tokens, lowered) == \E token \in tokens : Contains(lowered, token)

NonFunctionalItems(lowered) ==
    (IF AnyToken(TOKENS_PERFORMANCE, lowered) THEN <<<<"P","e","r","f","o","r","m","a","n","c","e",":"," ","M","u","s","t"," ","s","a","t","i","s","f","y"," ","d","e","c","l","a","r","e","d"," ","p","e","r","f","o","r","m","a","n","c","e"," ","e","x","p","e","c","t","a","t","i","o","n","s",".">>>> ELSE <<>>)
    \o (IF AnyToken(TOKENS_RELIABILITY, lowered) THEN <<<<"R","e","l","i","a","b","i","l","i","t","y",":"," ","M","u","s","t"," ","h","a","n","d","l","e"," ","e","r","r","o","r","s"," ","p","r","e","d","i","c","t","a","b","l","y"," ","a","n","d"," ","r","e","c","o","v","e","r"," ","s","a","f","e","l","y",".">>>> ELSE <<>>)
    \o (IF AnyToken(TOKENS_SECURITY, lowered) THEN <<<<"S","e","c","u","r","i","t","y",":"," ","M","u","s","t"," ","e","n","f","o","r","c","e"," ","r","e","l","e","v","a","n","t"," ","s","e","c","u","r","i","t","y"," ","c","o","n","t","r","o","l","s"," ","a","n","d"," ","d","a","t","a"," ","p","r","o","t","e","c","t","i","o","n","s",".">>>> ELSE <<>>)
    \o (IF AnyToken(TOKENS_MAINTAINABILITY, lowered) THEN <<<<"M","a","i","n","t","a","i","n","a","b","i","l","i","t","y",":"," ","C","o","d","e"," ","a","n","d"," ","i","n","t","e","r","f","a","c","e","s"," ","m","u","s","t"," ","r","e","m","a","i","n"," ","t","e","s","t","a","b","l","e"," ","a","n","d"," ","m","a","i","n","t","a","i","n","a","b","l","e",".">>>> ELSE <<>>)

OrDefaultItem(items) == IF items = <<>> THEN <<<<"M","a","i","n","t","a","i","n","a","b","i","l","i","t","y",":"," ","I","m","p","l","e","m","e","n","t","a","t","i","o","n"," ","m","u","s","t"," ","r","e","m","a","i","n"," ","t","e","s","t","a","b","l","e"," ","a","n","d"," ","r","e","a","d","a","b","l","e",".">>>> ELSE items

default_non_functional_requirements(constraints) ==
    OrDefaultItem(NonFunctionalItems(Lower(constraints)))

default_acceptance_criteria(project_name, outputs) ==
    <<<<BACKTICK>> \o project_name \o <<BACKTICK," ","g","e","n","e","r","a","t","e","s"," ","t","h","e"," ","e","x","p","e","c","t","e","d"," ","o","u","t","p","u","t",":"," ">> \o outputs \o <<".">>,
      <<"A","l","l"," ","r","e","q","u","i","r","e","d"," ","f","i","e","l","d","s"," ","a","r","e"," ","p","r","e","s","e","n","t"," ","a","n","d"," ","n","o","n","-","a","m","b","i","g","u","o","u","s"," ","i","n"," ","t","h","e"," ","g","e","n","e","r","a","t","e","d"," ","s","p","e","c","i","f","i","c","a","t","i","o","n",".">>,
      <<"T","h","e"," ","s","p","e","c","i","f","i","c","a","t","i","o","n"," ","f","o","l","l","o","w","s"," ","t","h","e"," ","m","a","n","d","a","t","e","d"," ","s","e","c","t","i","o","n"," ","o","r","d","e","r"," ","a","n","d"," ","h","e","a","d","i","n","g","s",".">>>>

(* [f"- {item}" for item in items] *)
Bullets(items) == [i \in 1..Len(items) |-> <<"-", " ">> \o items[i]]

(* [f"{idx}. {item}" for idx, item in enumerate(items, start=1)] *)
Numbered(items) == [i \in 1..Len(items) |-> DecimalOf(i) \o <<".", " ">> \o items[i]]

(* "\n".join(sections) + "\n" *)
RECURSIVE JoinLines(_)
JoinLines(sections) ==
    IF sections = <<>> THEN <<"\n">>
    ELSE IF Len(sections) = 1 THEN sections[1] \o <<"\n">>
    ELSE sections[1] \o <<"\n">> \o JoinLines(Tail(sections))

coerce_to_list_markdown(content) == JoinLines(CoerceLines(SplitLines(content)))

Sections(d, in_scope_items, out_of_scope_items, functional_requirements, non_functional, acceptance_criteria) ==
    <<EXPECTED_HEADINGS[1], <<>>,
      EXPECTED_HEADINGS[2],
      <<"-"," ","P","r","o","j","e","c","t"," ","N","a","m","e",":"," ">> \o d["project_name"].value,
      <<"-"," ","P","r","o","j","e","c","t"," ","T","y","p","e",":"," ">> \o d["project_type"].value,
      <<"-"," ","P","r","i","m","a","r","y"," ","G","o","a","l",":"," ">> \o d["primary_goal"].value,
      <<"-"," ","T","a","r","g","e","t"," ","U","s","e","r","s",":"," ">> \o d["target_users"].value,
      <<>>,
      EXPECTED_HEADINGS[3],
      <<"-"," ","T","h","e"," ","c","u","r","r","e","n","t"," ","w","o","r","k","f","l","o","w"," ","d","o","e","s"," ","n","o","t"," ","r","e","l","i","a","b","l","y"," ","s","a","t","i","s","f","y"," ","t","h","i","s"," ","o","b","j","e","c","t","i","v","e",":"," ">> \o d["primary_goal"].value \o <<".">>,
      <<>>,
      EXPECTED_HEADINGS[4],
      EXPECTED_HEADINGS[5]>>
    \o Bullets(in_scope_items)
    \o <<<<>>, EXPECTED_HEADINGS[6]>>
    \o Bullets(out_of_scope_items)
    \o <<<<>>, EXPECTED_HEADINGS[7]>>
    \o Numbered(functional_requirements)
    \o <<<<>>, EXPECTED_HEADINGS[8]>>
    \o Bullets(non_functional)
    \o <<<<>>, EXPECTED_HEADINGS[9], <<"-", " ">> \o d["inputs"].value,
         <<>>, EXPECTED_HEADINGS[10], <<"-", " ">> \o d["outputs"].value,
         <<>>, EXPECTED_HEADINGS[11], <<"-", " ">> \o d["constraints"].value,
         <<>>, EXPECTED_HEADINGS[12], <<"-"," ","U","s","e","r","-","p","r","o","v","i","d","e","d"," ","a","n","s","w","e","r","s"," ","a","r","e"," ","a","c","c","u","r","a","t","e"," ","a","n","d"," ","c","o","m","p","l","e","t","e"," ","a","t"," ","g","e","n","e","r","a","t","i","o","n"," ","t","i","m","e",".">>, <<"-"," ","R","e","q","u","i","r","e","m","e","n","t","s"," ","m","a","y"," ","r","e","q","u","i","r","e"," ","r","e","f","i","n","e","m","e","n","t"," ","i","f"," ","d","o","m","a","i","n"," ","c","o","n","s","t","r","a","i","n","t","s"," ","c","h","a","n","g","e",".">>,
         <<>>, EXPECTED_HEADINGS[13]>>
    \o Bullets(acceptance_criteria)

render_spec_markdown(d) ==
    JoinLines(Sections(
        d,
        split_to_bullets(<<"D","e","l","i","v","e","r"," ","c","o","r","e"," ">> \o d["project_type"].value \o <<" ","b","e","h","a","v","i","o","r"," ","a","l","i","g","n","e","d"," ","t","o"," ","g","o","a","l",":"," ">>
                         \o d["primary_goal"].value \o <<"."," ","S","u","p","p","o","r","t"," ","p","r","i","m","a","r","y"," ","u","s","e","r"," ","g","r","o","u","p",":"," ">>
                         \o d["target_users"].value \o <<"."," ","H","a","n","d","l","e"," ","d","e","f","i","n","e","d"," ","i","n","p","u","t","s"," ","a","n","d"," ","p","r","o","d","u","c","e"," ","d","e","f","i","n","e","d"," ","o","u","t","p","u","t","s",".">>),
        split_to_bullets(d["non_goals"].value),
        default_functional_requirements(d["inputs"].value, d["outputs"].value,
                                        d["primary_goal"].value),
        default_non_functional_requirements(d["constraints"].value),
        default_acceptance_criteria(d["project_name"].value, d["outputs"].value)))

----------------------------------------------------------------------------
(* the renderer and the validator on drafts and on documents *)

RV_OK == <<"o","k">>

(* field values: "ok", "Validate CSV files.", "a, b; c", ",;", "a\nb",     *)
(* "x\n# Extra", "Fast, with auth and tests", "reliable uptime", " "       *)
RenderValues == {RV_OK, <<"V","a","l","i","d","a","t","e"," ","C","S","V"," ","f","i","l","e","s",".">>, <<"a",","," ","b",";"," ","c">>, <<",",";">>, <<"a","\n","b">>, <<"x","\n","#"," ","E","x","t","r","a">>, <<"F","a","s","t",","," ","w","i","t","h"," ","a","u","t","h"," ","a","n","d"," ","t","e","s","t","s">>, <<"r","e","l","i","a","b","l","e"," ","u","p","t","i","m","e">>, <<" ">>}

RenderConfidences == {MinConfidence, AcceptedConfidence, CONF_EXACT}

T_TEST == <<"t","e","s","t">>

(* a draft in which field f has value v and the other fields the value     *)
(* "ok", all at confidence c                                               *)
RenderDraft(f, v, c) ==
    [name \in RequiredFieldSet |-> FieldCandidate(IF name = f THEN v ELSE RV_OK, c, T_TEST)]

RenderDrafts ==
    {RenderDraft(f, v, c) : f \in RequiredFieldSet, v \in RenderValues, c \in RenderConfidences}

XL_BULLET == <<"-"," ","x">>

(* lines put into a document: "- x", "1. y", "12. z", "This is free        *)
(* prose.", "", "   ", "-", "-x", "1.y", "  - padded  ", "  prose  ",       *)
(* "#tag", "## 1. Overview", "* star", "-\tx", ".1 x"                      *)
ExtraLines == {XL_BULLET, <<"1","."," ","y">>, <<"1","2","."," ","z">>, <<"T","h","i","s"," ","i","s"," ","f","r","e","e"," ","p","r","o","s","e",".">>, <<>>, <<" "," "," ">>, <<"-">>, <<"-","x">>, <<"1",".","y">>, <<" "," ","-"," ","p","a","d","d","e","d"," "," ">>, <<" "," ","p","r","o","s","e"," "," ">>, <<"#","t","a","g">>, <<"#","#"," ","1","."," ","O","v","e","r","v","i","e","w">>, <<"*"," ","s","t","a","r">>, <<"-","\t","x">>, <<".","1"," ","x">>}

(* pairs of skeleton headings that change places; <<1, 1>> changes nothing *)
SwapPairs == {<<1, 1>>, <<1, 2>>, <<2, 3>>, <<5, 6>>, <<3, 9>>, <<12, 13>>, <<1, 13>>}

SwapAt(i, pair) == IF i = pair[1] THEN pair[2] ELSE IF i = pair[2] THEN pair[1] ELSE i

(* the headings kept, each followed by one list item *)
SkeletonLines(pair, drop) ==
    LET kept == SelectSeq([i \in 1..Len(EXPECTED_HEADINGS) |-> SwapAt(i, pair)],
                          LAMBDA h : h # drop)
    IN [k \in 1..(2 * Len(kept)) |->
           IF k % 2 = 1 THEN EXPECTED_HEADINGS[kept[(k + 1) \div 2]] ELSE XL_BULLET]

InsertAt(lines, k, line) == SubSeq(lines, 1, k) \o <<line>> \o SubSeq(lines, k + 1, Len(lines))

(* where: 0 nowhere, 1 before the first line, 2 after the first item,      *)
(* 3 after the last line, 4 both before the first and after the last line  *)
WithExtra(lines, extra, where) ==
    CASE where = 0 -> lines
      [] where = 1 -> InsertAt(lines, 0, extra)
      [] where = 2 -> InsertAt(lines, 2, extra)
      [] where = 3 -> InsertAt(lines, Len(lines), extra)
      [] OTHER -> InsertAt(InsertAt(lines, Len(lines), extra), 0, extra)

Document(pair, drop, extra, where) == JoinLines(WithExtra(SkeletonLines(pair, drop), extra, where))

Documents ==
    {Document(pair, drop, extra, where) :
        pair \in SwapPairs, drop \in {0, 7}, extra \in ExtraLines, where \in 0..4}

InitMarkdown ==
    /\ Idle
    /\ NoNormalize
    /\ NoCall
    /\ md_errors = <<>>
    /\ md_source = <<>>
    /\ NoConfig
    /\ \/ pc = "md_render" /\ draft \in RenderDrafts /\ md_content = <<>>
       \/ pc = "md_validate" /\ draft = <<>> /\ md_content \in Documents
       \/ pc = "md_coerce" /\ draft = <<>> /\ md_content \in Documents

(* content = render_spec_markdown(draft) *)
Render ==
    /\ pc = "md_render"
    /\ md_content' = render_spec_markdown(draft)
    /\ pc' = "md_validate"
    /\ UNCHANGED <<provider, interactive, prompt, draft, idx, followups_asked, asked,
                   answers, built, missing_fields, ambiguous_fields, exit_code, stderr,
                   written, nf_field, nf_value, nf_result, calls, cj_vars, md_errors, md_source, rc_vars>>

(* errors = validate_spec_markdown(content) *)
Validate ==
    /\ pc = "md_validate"
    /\ md_errors' = validate_spec_markdown(md_content)
    /\ pc' = "md_done"
    /\ UNCHANGED <<provider, interactive, prompt, draft, idx, followups_asked, asked,
                   answers, built, missing_fields, ambiguous_fields, exit_code, stderr,
                   written, nf_field, nf_value, nf_result, calls, cj_vars, md_content, md_source, rc_vars>>

(* coerced = coerce_to_list_markdown(content) *)
Coerce ==
    /\ pc = "md_coerce"
    /\ md_source' = md_content
    /\ md_content' = coerce_to_list_markdown(md_content)
    /\ pc' = "md_validate"
    /\ UNCHANGED <<provider, interactive, prompt, draft, idx, followups_asked, asked,
                   answers, built, missing_fields, ambiguous_fields, exit_code, stderr,
                   written, nf_field, nf_value, nf_result, calls, cj_vars, md_errors, rc_vars>>

NextMarkdown == Render \/ Coerce \/ Validate

SpecMarkdown == InitMarkdown /\ [][NextMarkdown]_vars

----------------------------------------------------------------------------
(* Properties *)

InSeq(x, seq) == \E i \in 1..Len(seq) : seq[i] = x

FieldIndex(name) == CHOOSE i \in 1..Len(REQUIRED_FIELDS) : REQUIRED_FIELDS[i] = name

FieldOrder ==
    <<"project_name", "project_type", "primary_goal", "target_users",
      "inputs", "outputs", "constraints", "non_goals">>

IsBlank(text) == \A i \in 1..Len(text) : text[i] \in {" ", "\t", "\n", "\r"}

(* the answer given to the follow-up for a field that was asked *)
AnswerFor(name) == answers[CHOOSE i \in 1..Len(asked) : asked[i] = name]

(* the text, whitespace-collapsed, is one of the enumeration texts ignoring case *)
IsEnumerationText(text) ==
    \E i \in 1..Len(ProjectType) : Lower(Collapse(text)) = Lower(ProjectType[i])

BelowAcceptance(candidate) == IsBlank(candidate.value) \/ candidate.confidence < 80

(* C1: the fields asked are a repetition-free subsequence of the fixed field
   order: every question is for the field being visited, which comes after
   every field already asked, and that field is blank or below 0.8 with the
   cap not reached; conversely a visited field that is blank or below 0.8 is
   asked unless the cap is reached or the question cannot be generated. *)
C1_AskedInOrderIffNeeded ==
    [][/\ (asked' # asked) =>
             /\ pc = "loop" /\ idx \in 1..Len(FieldOrder)
             /\ asked' = Append(asked, FieldOrder[idx])
             /\ \A i \in 1..Len(asked) :
                   \E j \in 1..(idx - 1) : FieldOrder[j] = asked[i]
             /\ \A i, j \in 1..Len(asked) : i # j => asked[i] # asked[j]
             /\ BelowAcceptance(draft[FieldOrder[idx]])
             /\ ~(provider = "openai" /\ Len(asked) >= 3)
       /\ (/\ pc = "loop" /\ idx \in 1..Len(FieldOrder) /\ pc' # "exit"
           /\ BelowAcceptance(draft[FieldOrder[idx]])
           /\ ~(provider = "openai" /\ Len(asked) >= 3))
          => asked' = Append(asked, FieldOrder[idx])
       /\ (pc = "loop" /\ idx \in 1..Len(FieldOrder)
           /\ ~BelowAcceptance(draft[FieldOrder[idx]]))
          => asked' = asked]_vars

(* two fields were asked and an accepted field between them was passed over *)
C1_Witness ==
    /\ provider = "fake"
    /\ asked = <<"project_type", "target_users">>
    /\ ~BelowAcceptance(draft["primary_goal"])

(* C2: an LLM-backed run asks at most 3 follow-ups, empty answers included;
   after the loop of a run that is not LLM-backed every field is either asked
   or accepted (non-blank at confidence >= 0.8), so nothing caps it. *)
C2_FollowupCap ==
    /\ (provider = "openai" => Len(asked) <= 3 /\ followups_asked <= 3)
    /\ followups_asked = Len(asked)
    /\ (/\ provider # "openai" /\ interactive
        /\ pc \in {"normalize", "generate_spec", "returned"})
       => \A i \in 1..Len(FieldOrder) :
             InSeq(FieldOrder[i], asked) \/ ~BelowAcceptance(draft[FieldOrder[i]])

(* the LLM-backed loop stopped at 3 questions, one answered blank, with a
   field still below acceptance *)
C2_Witness ==
    /\ provider = "openai" /\ pc = "normalize"
    /\ Len(asked) = 3
    /\ \E i \in 1..3 : IsBlank(answers[i])
    /\ \E i \in 1..Len(FieldOrder) :
          ~InSeq(FieldOrder[i], asked) /\ BelowAcceptance(draft[FieldOrder[i]])

(* C3: no field is both missing (blank value or confidence < 0.5) and
   ambiguous (non-blank value and confidence in [0.5, 0.8)). *)
C3_ListsDisjoint ==
    pc = "lists_done" =>
       \A i \in 1..Len(FieldOrder) :
          LET name == FieldOrder[i]
              c == draft[name]
          IN /\ ~(InSeq(name, missing_fields) /\ InSeq(name, ambiguous_fields))
             /\ InSeq(name, missing_fields) <=> (IsBlank(c.value) \/ c.confidence < 50)
             /\ InSeq(name, ambiguous_fields)
                   <=> (~IsBlank(c.value) /\ c.confidence >= 50 /\ c.confidence < 80)

(* lists computed for a draft with a non-blank field below 0.5 and another
   field in the ambiguous band *)
C3_Witness ==
    /\ pc = "lists_done"
    /\ draft["project_name"].value = <<"x">> /\ draft["project_name"].confidence = 49
    /\ InSeq("project_name", missing_fields)
    /\ InSeq("non_goals", ambiguous_fields)

(* C4: whenever a run holds a draft (after extraction, during and after the
   loop, after normalization, and in as_dict) it has exactly the 8 required
   field names, each with a value, a confidence and a rationale. *)
C4_ExactFieldSet ==
    (pc \in {"loop", "normalize", "generate_spec", "returned"} \/ built \/ DOMAIN draft # {})
       => /\ DOMAIN draft = {FieldOrder[i] : i \in 1..Len(FieldOrder)}
          /\ Cardinality(DOMAIN draft) = 8
          /\ \A name \in DOMAIN draft :
                DOMAIN draft[name] = {"value", "confidence", "rationale"}
          /\ DOMAIN AsDict(draft) = DOMAIN draft
          /\ \A name \in DOMAIN draft : AsDict(draft)[name] = draft[name]

(* a draft extracted by the LLM-backed strategy, then changed by an answer *)
C4_Witness ==
    /\ provider = "openai" /\ pc = "loop"
    /\ Len(asked) = 1
    /\ draft[asked[1]].rationale = R_INTERACTIVE_USER_ANSWER

(* C5: a blank answer leaves the asked field's candidate as it was, and the
   loop goes on to the next field. *)
C5_BlankAnswerKeepsField ==
    [][(asked' # asked /\ IsBlank(answers'[Len(answers')]))
          => /\ draft'[asked'[Len(asked')]] = draft[asked'[Len(asked')]]
             /\ draft' = draft
             /\ pc' = "loop" /\ idx' = idx + 1]_vars

(* project_name, inferred at 0.55, was asked and answered blank *)
C5_Witness ==
    /\ asked = <<"project_name">> /\ IsBlank(answers[1])
    /\ draft["project_name"].confidence = 55
    /\ draft["project_name"].rationale = R_TITLE_INFERENCE
    /\ idx = 2

(* C6: a non-blank answer replaces the asked field's candidate by the
   normalized value, the confidence of normalize_user_field_value and the
   rationale "interactive_user_answer"; every other field is unchanged. *)
C6_AnswerReplacesField ==
    [][(asked' # asked /\ ~IsBlank(answers'[Len(answers')]))
          => LET name == asked'[Len(asked')]
                 norm == normalize_user_field_value(name, answers'[Len(answers')])
             IN /\ draft'[name] = [value |-> norm[1], confidence |-> norm[2],
                                   rationale |-> R_INTERACTIVE_USER_ANSWER]
                /\ DOMAIN draft' = DOMAIN draft
                /\ \A other \in DOMAIN draft : other # name => draft'[other] = draft[other]]_vars

(* a field that held an extracted candidate was replaced by an answer *)
C6_Witness ==
    /\ asked = <<"project_name">> /\ answers = <<A_TEXT>>
    /\ draft["project_name"] = FieldCandidate(<<"x", " ", "y">>, 100, R_INTERACTIVE_USER_ANSWER)
    /\ draft["primary_goal"].rationale = R_FALLBACK_PROMPT_EXCERPT

(* the collapsed text: no blank at either end, blanks are single spaces, and
   the words are those of the answer in order *)
IsCollapseOf(c, text) ==
    LET NonBlank(t) == SelectSeq(t, LAMBDA ch : ch \notin {" ", "\t", "\n", "\r"})
        WordStarts(t) == {i \in 1..Len(t) : ~IsBlank(<<t[i]>>) /\ (i = 1 \/ IsBlank(<<t[i - 1]>>))}
        Rank(t, i) == Cardinality({j \in 1..i : ~IsBlank(<<t[j]>>)})
    IN /\ NonBlank(c) = NonBlank(text)
       /\ \A i \in 1..Len(c) : IsBlank(<<c[i]>>) =>
             c[i] = " " /\ i > 1 /\ i < Len(c) /\ ~IsBlank(<<c[i + 1]>>)
       /\ {Rank(c, i) : i \in WordStarts(c)} = {Rank(text, i) : i \in WordStarts(text)}

(* C7: normalize_user_field_value collapses whitespace; for project_type a
   collapsed answer equal ignoring case to an enumeration text yields that
   text at 1.0 (a canonical text is unchanged), any other yields the collapsed
   text at 0.4; other fields yield the collapsed text at 1.0, or 0.0 when it
   is empty; normalizing the result again changes nothing. *)
C7_NormalizeValue ==
    pc \in {"normalized", "renormalized"} =>
       LET r == nf_result[1]
           hits == {i \in 1..Len(ProjectType) :
                       \E c \in {r[1], Collapse(nf_value)} :
                          IsCollapseOf(c, nf_value) /\ Lower(c) = Lower(ProjectType[i])}
       IN /\ IF nf_field = "project_type"
             THEN IF hits # {}
                  THEN \E i \in hits : r = <<ProjectType[i], 100>>
                  ELSE IsCollapseOf(r[1], nf_value) /\ r[2] = 40
             ELSE /\ IsCollapseOf(r[1], nf_value)
                  /\ r[2] = IF r[1] # <<>> THEN 100 ELSE 0
          /\ (nf_field = "project_type" /\ InSeq(nf_value, ProjectType)) => r = <<nf_value, 100>>
          /\ (pc = "renormalized" => nf_result[2] = nf_result[1])

(* an upper-case, padded spelling of "CLI tool" was normalized twice *)
C7_Witness ==
    /\ pc = "renormalized"
    /\ nf_field = "project_type"
    /\ nf_value = DoubleSpaces(Upper(CLI_TOOL))
    /\ nf_result = <<<<CLI_TOOL, 100>>, <<CLI_TOOL, 100>>>>

ProjectTypeAnsweredOutsideEnumeration ==
    /\ built
    /\ InSeq("project_type", asked)
    /\ ~IsBlank(AnswerFor("project_type"))
    /\ ~IsEnumerationText(AnswerFor("project_type"))

(* C8 as stated: a project_type answer outside the enumeration is listed in
   ambiguous_fields and not in missing_fields. *)
C8_Original ==
    ProjectTypeAnsweredOutsideEnumeration
       => /\ InSeq("project_type", ambiguous_fields)
          /\ ~InSeq("project_type", missing_fields)

(* C8 amended: with a no-op final normalization, a project_type answer
   outside the enumeration is kept at confidence 0.4, so project_type is
   listed in missing_fields and not in ambiguous_fields. *)
C8_UnrecognizedTypeIsMissing ==
    (ProjectTypeAnsweredOutsideEnumeration /\ provider # "openai")
       => /\ draft["project_type"].value = Collapse(AnswerFor("project_type"))
          /\ draft["project_type"].confidence = 40
          /\ InSeq("project_type", missing_fields)
          /\ ~InSeq("project_type", ambiguous_fields)

C8_Witness ==
    /\ ProjectTypeAnsweredOutsideEnumeration
    /\ provider = "local"
    /\ draft["project_type"].value = <<"x", " ", "y">>
    /\ missing_fields = <<"project_type">>

EveryQuestionAnswered ==
    /\ built /\ interactive /\ provider # "openai"
    /\ \A i \in 1..Len(answers) : ~IsBlank(answers[i])

(* C9 as stated: uncapped run, no-op normalization, every question answered
   with a non-empty text: missing_fields is empty. *)
C9_Original ==
    (/\ built /\ interactive /\ provider # "openai"
     /\ \A i \in 1..Len(answers) : answers[i] # <<>>)
       => missing_fields = <<>>

(* C9 amended: uncapped run, no-op normalization, every answer has a
   non-whitespace character, and the project_type answer, when project_type
   is asked, is an enumeration text ignoring case: missing_fields is empty. *)
C9_AnsweredRunHasNoMissing ==
    (/\ EveryQuestionAnswered
     /\ InSeq("project_type", asked) => IsEnumerationText(AnswerFor("project_type")))
       => missing_fields = <<>>

(* all 8 fields of "Build something" asked and answered *)
C9_Witness ==
    /\ EveryQuestionAnswered
    /\ provider = "local"
    /\ Len(asked) = 8
    /\ AnswerFor("project_type") = A_CLI_TOOL
    /\ missing_fields = <<>>

(* the missing field names of the draft, in required-field order *)
MissingNames ==
    SelectSeq(FieldOrder,
              LAMBDA name : IsBlank(draft[name].value) \/ draft[name].confidence < 50)

(* C10: a non-interactive generate run whose build completed exits 1 with
   exactly the missing names reported in order and nothing written when a
   field is missing, and writes the document and exits 0 otherwise. *)
C10_NonInteractiveExit ==
    (pc = "exit" /\ built /\ ~interactive) =>
       /\ missing_fields = MissingNames
       /\ IF MissingNames # <<>>
          THEN /\ exit_code = 1
               /\ stderr = <<[kind |-> "missing", fields |-> MissingNames]>>
               /\ written = <<>>
          ELSE /\ exit_code = 0
               /\ Len(written) = 1
               /\ stderr = <<>>

(* a non-interactive heuristic run that reported six missing fields *)
C10_Witness ==
    /\ pc = "exit" /\ built /\ ~interactive
    /\ provider = "local"
    /\ exit_code = 1
    /\ Len(missing_fields) = 6
    /\ written = <<>>

(* C11: a generate request with an empty or whitespace-only prompt, in the
   generate command and in the guided menu, ends with exit code 2: no
   extraction, no follow-up, no document. *)
C11_EmptyPromptExits2 ==
    [][/\ ((pc = "run_generate" /\ IsBlank(prompt)) \/ (pc = "guided_prompt" /\ prompt' = <<>>))
          => /\ pc' = "exit" /\ exit_code' = 2
             /\ draft' = <<>> /\ ~built'
             /\ asked' = <<>> /\ followups_asked' = 0
             /\ written' = <<>>
       /\ exit_code = 2 => (pc = "exit" /\ pc' = "exit" /\ exit_code' = 2)]_vars

(* the guided path, with an LLM provider constructed, was given a blank prompt *)
C11_Witness ==
    /\ provider = "openai" /\ pc = "exit" /\ exit_code = 2
    /\ stderr = <<[kind |-> "prompt_required", fields |-> <<>>]>>
    /\ draft = <<>> /\ written = <<>>

HeuristicRationales ==
    {R_EXPLICIT_LABEL, R_KEYWORD_INFERENCE, R_TITLE_INFERENCE, R_FALLBACK_PROMPT_EXCERPT}

(* C12: in an LLM-backed run, a run that did not complete its build (and was
   not refused for an empty prompt) ends with exit code 3, a run that reported
   an internal error has ended with exit code 3, exit code 3 comes with no
   document written, and no field of the draft ever comes from the heuristic
   parser. *)
C12_ProviderFailureIsFatal ==
    provider = "openai" =>
       /\ \A name \in DOMAIN draft : draft[name].rationale \notin HeuristicRationales
       /\ (pc = "exit" /\ ~built /\ exit_code # 2) => exit_code = 3
       /\ (\E i \in 1..Len(stderr) : stderr[i].kind = "internal_error")
             => (pc = "exit" /\ exit_code = 3)
       /\ exit_code = 3 => (pc = "exit" /\ ~built /\ written = <<>>)

(* an LLM-backed run failed after two follow-ups had been asked *)
C12_Witness ==
    /\ provider = "openai" /\ pc = "exit" /\ exit_code = 3
    /\ Len(asked) = 2
    /\ stderr = <<[kind |-> "internal_error", fields |-> <<>>]>>
    /\ written = <<>>

(* the payload satisfies the schema as the specification words it: an      *)
(* object in which every required key holds an object whose value is a     *)
(* string, whose confidence is a number between 0 and 1 and whose          *)
(* rationale is a string                                                   *)
StrictEntry(entry) ==
    /\ entry.t = "dict"
    /\ {"value", "confidence", "rationale"} \subseteq DOMAIN entry.v
    /\ entry.v["value"].t = "str"
    /\ entry.v["confidence"].t = "num"
    /\ entry.v["confidence"].v >= 0
    /\ entry.v["confidence"].v <= 100
    /\ entry.v["rationale"].t = "str"

StrictPayload(payload) ==
    /\ payload.t = "dict"
    /\ \A name \in RequiredFieldSet :
          /\ name \in DOMAIN payload.v
          /\ StrictEntry(payload.v[name])

CallJsonAttempts == SelectSeq(cj_log, LAMBDA e : e.kind \in CJ_FAILURES \cup {"attempt_ok"})

CallJsonTimeline ==
    SelectSeq(cj_log, LAMBDA e : e.kind \in CJ_FAILURES \cup {"attempt_ok", "sleep"})

(* C13: in the extraction and normalization stages a response is accepted  *)
(* only if it satisfies the schema strictly, and a response that violates  *)
(* it is a failed attempt that is retried, so that a call ends rejected    *)
(* only when all max_retries + 1 attempts are used and leaves no draft.    *)
C13_StrictSchemaWithRetry ==
    cj_stage \in {"parse_prompt", "normalize"} =>
        /\ pc = "cj_done" => StrictPayload(DraftPayloads[cj_payload])
        /\ pc = "cj_rejected" =>
              /\ Len(CallJsonAttempts) = cj_max_retries + 1
              /\ draft = <<>>

(* C13, its two halves apart: what is accepted, and what rejection costs   *)
C13_AcceptedIsStrict ==
    (cj_stage \in {"parse_prompt", "normalize"} /\ pc = "cj_done")
        => StrictPayload(DraftPayloads[cj_payload])

C13_RejectedAfterAllAttempts ==
    (cj_stage \in {"parse_prompt", "normalize"} /\ pc = "cj_rejected")
        => Len(CallJsonAttempts) = cj_max_retries + 1

CallJsonBounded ==
    /\ cj_max_retries >= 0
    /\ Len(CallJsonAttempts) <= cj_max_retries + 1
    /\ \A i \in 1..Len(CallJsonAttempts) : CallJsonAttempts[i].n = i - 1
    /\ \A i \in 1..(Len(CallJsonAttempts) - 1) : CallJsonAttempts[i].kind \in CJ_FAILURES
    /\ \A i \in 1..Len(CallJsonTimeline) :
          IF i % 2 = 1
          THEN CallJsonTimeline[i].kind # "sleep"
          ELSE CallJsonTimeline[i] = Event("sleep", RETRY_DELAY)
    /\ pc = "cj_call" =>
          /\ Len(CallJsonTimeline) % 2 = 0
          /\ Len(CallJsonAttempts) <= cj_max_retries
          /\ cj_payload = 0
    /\ pc \in {"cj_returned", "cj_done", "cj_rejected"} =>
          /\ Len(CallJsonTimeline) % 2 = 1
          /\ CallJsonAttempts[Len(CallJsonAttempts)].kind = "attempt_ok"
          /\ cj_payload \in Answers_of(cj_stage)
    /\ pc = "cj_raised" =>
          /\ Len(CallJsonTimeline) % 2 = 1
          /\ Len(CallJsonAttempts) = cj_max_retries + 1
          /\ \A i \in 1..Len(CallJsonAttempts) : CallJsonAttempts[i].kind \in CJ_FAILURES
          /\ cj_payload = 0

(* the steps a call is at most away from its end *)
CallJsonRemaining(p, log) ==
    2 * (cj_max_retries + 1
         - Len(SelectSeq(log, LAMBDA e : e.kind \in CJ_FAILURES \cup {"attempt_ok"})))
    + (CASE p = "cj_call" -> 2 [] p = "cj_returned" -> 1 [] OTHER -> 0)

CallJsonProgress ==
    /\ CallJsonRemaining(pc', cj_log') < CallJsonRemaining(pc, cj_log)
    /\ CallJsonRemaining(pc', cj_log') >= 0
    /\ cj_max_retries' = cj_max_retries

(* C14: an external call makes at most max_retries + 1 attempts, numbered  *)
(* from 0 without a gap; no attempt follows a successful one, whose        *)
(* payload is what the call returns; between two consecutive attempts and  *)
(* nowhere else it sleeps once for the same fixed delay; it raises only    *)
(* when max_retries + 1 attempts have all failed by a transport error, an  *)
(* empty response or malformed JSON; and every step brings the call        *)
(* strictly closer to its end, so that it ends.                            *)
C14_BoundedRetry == []CallJsonBounded /\ [][CallJsonProgress]_vars

(* a call that fails twice in different ways, sleeps after each failure    *)
(* and returns the third attempt's payload                                 *)
C14_Witness ==
    /\ pc = "cj_returned"
    /\ cj_max_retries = 2
    /\ Len(CallJsonAttempts) = 3
    /\ CallJsonAttempts[1].kind = "empty_response"
    /\ CallJsonAttempts[2].kind = "malformed_json"
    /\ Len(CallJsonTimeline) = 5

HeuristicRun == provider = "local" /\ ~interactive

BuildSomethingRun == HeuristicRun /\ prompt = P_BUILD_SOMETHING /\ pc = "exit"

T_BUILD_SOMETHING == <<"B","u","i","l","d"," ","S","o","m","e","t","h","i","n","g">>

SixMissing ==
    <<"primary_goal", "target_users", "inputs", "outputs", "constraints", "non_goals">>

(* C15 as stated: for the prompt "Build something" in a non-interactive    *)
(* heuristic run all 8 required fields are in missing_fields, the exit     *)
(* code is 1 and the error output lists all 8 field names.                 *)
C15_Original ==
    BuildSomethingRun =>
        /\ missing_fields = REQUIRED_FIELDS
        /\ exit_code = 1
        /\ stderr = <<[kind |-> "missing", fields |-> REQUIRED_FIELDS]>>

(* C15: for the prompt "Build something" in a non-interactive heuristic    *)
(* run the project name is derived as "Build Something" at 0.55 and is     *)
(* not missing; primary_goal, target_users, inputs, outputs, constraints   *)
(* and non_goals are missing, and project_type is missing exactly when     *)
(* type inference leaves it empty; the exit code is 1, the error output    *)
(* lists exactly the names of missing_fields and no document is written.   *)
C15_BuildSomething ==
    BuildSomethingRun =>
        /\ draft["project_name"].value = T_BUILD_SOMETHING
        /\ draft["project_name"].confidence = CONF_TITLE_INFERENCE
        /\ ~InSeq("project_name", missing_fields)
        /\ \A i \in 1..Len(SixMissing) : InSeq(SixMissing[i], missing_fields)
        /\ InSeq("project_type", missing_fields) <=> draft["project_type"].value = <<>>
        /\ exit_code = 1
        /\ stderr = <<[kind |-> "missing", fields |-> missing_fields]>>
        /\ written = <<>>

C15_Witness == BuildSomethingRun /\ exit_code = 1 /\ Len(missing_fields) = Len(SixMissing)

(* the labels of the eight fields as a prompt writes them, lower-cased *)
FieldLabels ==
    [name \in RequiredFieldSet |->
        CASE name = "project_name" -> {<<"p","r","o","j","e","c","t"," ","n","a","m","e">>, <<"n","a","m","e">>}
          [] name = "project_type" -> {<<"p","r","o","j","e","c","t"," ","t","y","p","e">>, <<"t","y","p","e">>}
          [] name = "primary_goal" -> {<<"p","r","i","m","a","r","y"," ","g","o","a","l">>, <<"g","o","a","l">>}
          [] name = "target_users" -> {<<"t","a","r","g","e","t"," ","u","s","e","r","s">>, <<"u","s","e","r","s">>}
          [] name = "inputs" -> {<<"i","n","p","u","t","s">>, <<"i","n","p","u","t">>}
          [] name = "outputs" -> {<<"o","u","t","p","u","t","s">>, <<"o","u","t","p","u","t">>}
          [] name = "constraints" -> {<<"c","o","n","s","t","r","a","i","n","t","s">>, <<"c","o","n","s","t","r","a","i","n","t">>}
          [] name = "non_goals" -> {<<"n","o","n","-","g","o","a","l","s">>, <<"n","o","n","-","g","o","a","l">>, <<"n","o","n"," ","g","o","a","l","s">>, <<"n","o","n"," ","g","o","a","l">>}]

HasColon(line) == \E i \in 1..Len(line) : line[i] = ":"

ColonAt(line) == MinOf({i \in 1..Len(line) : line[i] = ":"})

LabelOfLine(line) == Lower(Strip(SubSeq(line, 1, ColonAt(line) - 1)))

ValueOfLine(line) == SubSeq(line, ColonAt(line) + 1, Len(line))

(* every line is `Label: value` and each field has exactly one line *)
GivesEachField(lines) ==
    /\ Len(lines) = Len(REQUIRED_FIELDS)
    /\ \A i \in 1..Len(lines) : HasColon(lines[i])
    /\ \A name \in RequiredFieldSet :
          Cardinality({i \in 1..Len(lines) : LabelOfLine(lines[i]) \in FieldLabels[name]}) = 1

AllExplicit ==
    /\ \A name \in RequiredFieldSet :
          /\ draft[name].confidence = CONF_EXPLICIT_LABEL
          /\ draft[name].rationale = R_EXPLICIT_LABEL
    /\ missing_fields = <<>>
    /\ ambiguous_fields = <<>>
    /\ exit_code = 0

OnlyDots(value) == \A i \in 1..Len(value) : value[i] = "."

IsAlnum(c) == c \in Digits \/ \E i \in 1..Len(LowerChars) : LowerChars[i] = c \/ UpperChars[i] = c

(* the term stands in the text as a keyword: between word boundaries *)
OccursAsKeyword(text, term) ==
    \E i \in 1..(Len(text) - Len(term) + 1) :
        /\ SubSeq(text, i, i + Len(term) - 1) = term
        /\ (i = 1 \/ ~IsAlnum(text[i - 1]))
        /\ (i + Len(term) > Len(text) \/ ~IsAlnum(text[i + Len(term)]))

KeywordBuckets(text) ==
    {i \in 1..Len(TypeChecks) :
        \E k \in 1..Len(TypeChecks[i][2]) : OccursAsKeyword(Lower(text), TypeChecks[i][2][k])}

LabelledType(text) ==
    extract_from_lines(StripNonBlank(SplitLines(text)), LABEL_PATTERNS["project_type"])

(* C17 as stated: in heuristic extraction, when no label line set the      *)
(* project type, it is inferred at 0.7 as the first bucket in priority     *)
(* order one of whose keywords is a keyword of the lower-cased prompt;     *)
(* when no bucket's keyword occurs the type stays empty at confidence 0;   *)
(* a label-set type is never overridden by inference.                      *)
C17_KeywordInference ==
    (HeuristicRun /\ draft # <<>>) =>
        IF LabelledType(prompt) # <<>>
        THEN /\ draft["project_type"].value = LabelledType(prompt)
             /\ draft["project_type"].confidence = CONF_EXPLICIT_LABEL
        ELSE IF KeywordBuckets(prompt) = {}
        THEN /\ draft["project_type"].value = <<>>
             /\ draft["project_type"].confidence = 0
        ELSE /\ draft["project_type"].value = TypeChecks[MinOf(KeywordBuckets(prompt))][1]
             /\ draft["project_type"].confidence = CONF_KEYWORD_INFERENCE

(* the lines of the validated document, each without its surrounding       *)
(* whitespace                                                              *)
DocLines == StripAll(SplitLines(md_content))

NonBlankLines(lines) == {i \in 1..Len(lines) : lines[i] # <<>>}

HeadingLines(lines) == {i \in NonBlankLines(lines) : lines[i][1] = "#"}

(* rule 1: the first non-blank line is the title heading *)
TitleFirst(lines) ==
    /\ NonBlankLines(lines) # {}
    /\ lines[MinOf(NonBlankLines(lines))] = EXPECTED_HEADINGS[1]

(* rule 2: the lines starting with "#", in order, are the skeleton *)
SkeletonExact(lines) ==
    /\ Cardinality(HeadingLines(lines)) = Len(EXPECTED_HEADINGS)
    /\ \A k \in 1..Len(EXPECTED_HEADINGS) :
          lines[Nth(HeadingLines(lines), k)] = EXPECTED_HEADINGS[k]

IsBulletLine(line) == Len(line) >= 2 /\ line[1] = "-" /\ line[2] \in Whitespace

IsNumberedLine(line) ==
    \E n \in 1..(Len(line) - 2) :
        /\ \A j \in 1..n : line[j] \in Digits
        /\ line[n + 1] = "."
        /\ line[n + 2] \in Whitespace

(* rule 3 fails on these lines *)
OffendingLines(lines) ==
    {i \in NonBlankLines(lines) \ HeadingLines(lines) :
        ~IsBulletLine(lines[i]) /\ ~IsNumberedLine(lines[i])}

HasPrefix(text, prefix) ==
    Len(prefix) <= Len(text) /\ SubSeq(text, 1, Len(prefix)) = prefix

HasSuffix(text, suffix) ==
    Len(suffix) <= Len(text)
    /\ SubSeq(text, Len(text) - Len(suffix) + 1, Len(text)) = suffix

(* the message is a rule-3 message for line i *)
ReportsLine(message, i, line) ==
    /\ HasPrefix(message, M_LINE \o DecimalOf(i) \o <<" ">>)
    /\ HasSuffix(message, <<":", " ">> \o line)

CountOf(errors, message) == Cardinality({k \in 1..Len(errors) : errors[k] = message})

ValidatorRules(lines, errors) ==
    /\ errors = <<>> <=>
          (TitleFirst(lines) /\ SkeletonExact(lines) /\ OffendingLines(lines) = {})
    /\ CountOf(errors, M_FIRST) = (IF TitleFirst(lines) THEN 0 ELSE 1)
    /\ CountOf(errors, M_HEADINGS) = (IF SkeletonExact(lines) THEN 0 ELSE 1)
    /\ M_FIRST # M_HEADINGS
    /\ \A i \in OffendingLines(lines) :
          Cardinality({k \in 1..Len(errors) : ReportsLine(errors[k], i, lines[i])}) = 1
    /\ Len(errors) = CountOf(errors, M_FIRST) + CountOf(errors, M_HEADINGS)
                     + Cardinality(OffendingLines(lines))

(* C18: validate_spec_markdown returns no error iff, each line read        *)
(* without its surrounding whitespace, (1) the first non-blank line is     *)
(* the title heading, (2) the lines starting with "#" are in order         *)
(* exactly the skeleton and (3) every non-blank line starts with "#",      *)
(* with a dash and a whitespace character or with digits, a period and a   *)
(* whitespace character; otherwise the errors are one message for rule 1   *)
(* when it fails, one other message for rule 2 when it fails, and for      *)
(* each line failing rule 3 exactly one message with that line's 1-based   *)
(* number and content, and nothing else.                                   *)
C18_ValidatorRules == pc = "md_done" => ValidatorRules(DocLines, md_errors)

ThreeRulesBroken(lines) ==
    /\ ~TitleFirst(lines)
    /\ ~SkeletonExact(lines)
    /\ Cardinality(OffendingLines(lines)) = 2

(* a document that breaks the three rules, rule 3 on two lines *)
C18_Witness == pc = "md_done" /\ Len(md_errors) = 4 /\ ThreeRulesBroken(DocLines)

(* the headings are those of the skeleton, each once, in another order,    *)
(* and the body lines are all list items                                   *)
HeadingsReordered(lines) ==
    /\ Cardinality(HeadingLines(lines)) = Len(EXPECTED_HEADINGS)
    /\ \A k \in 1..Len(EXPECTED_HEADINGS) :
          \E i \in HeadingLines(lines) : lines[i] = EXPECTED_HEADINGS[k]
    /\ ~SkeletonExact(lines)
    /\ OffendingLines(lines) = {}

OneHeadingError(errors) == Len(errors) = 1 /\ Contains(errors[1], M_HEADINGS)

(* C19 as stated: for a document whose headings are those of the skeleton  *)
(* in a wrong order, body lines all list items, the validator returns      *)
(* exactly one error, which contains the heading message.                  *)
C19_Original ==
    (pc = "md_done" /\ HeadingsReordered(DocLines)) => OneHeadingError(md_errors)

WrongOrderErrors(lines, errors) ==
    HeadingsReordered(lines) =>
        IF TitleFirst(lines) THEN OneHeadingError(errors)
        ELSE errors = <<M_FIRST, M_HEADINGS>>

(* C19: for a document whose headings are those of the skeleton in a wrong *)
(* order, body lines all list items, the validator returns exactly one     *)
(* error, the heading message, when the title heading is still the first   *)
(* non-blank line, and otherwise exactly two errors, the title message     *)
(* followed by the heading message.                                        *)
C19_WrongHeadingOrder == pc = "md_done" => WrongOrderErrors(DocLines, md_errors)

ReorderedBelowTitle(lines) == HeadingsReordered(lines) /\ TitleFirst(lines)

C19_Witness ==
    pc = "md_done" /\ md_errors = <<M_HEADINGS>> /\ ReorderedBelowTitle(DocLines)

FullyPopulated(d) ==
    \A name \in RequiredFieldSet :
        d[name].value # <<>> /\ d[name].confidence >= AcceptedConfidence

(* C20: for every fully-populated draft (all 8 values non-empty, all        *)
(* confidences >= 0.8) the validator returns no error on the rendered      *)
(* document.                                                               *)
C20_RoundTrip ==
    (pc = "md_done" /\ draft # <<>> /\ FullyPopulated(draft)) => md_errors = <<>>

(* the lines of the document before coercion, as they are and without    *)
(* their surrounding whitespace                                            *)
SourceLines == SplitLines(md_source)

CoercedLines == SplitLines(md_content)

Coerced == pc = "md_done" /\ md_source # <<>>

(* line by line: an offending line becomes "- " followed by the line, any  *)
(* other line (blank, heading, bullet, numbered) is kept as it is          *)
RewritesProseOnly(source, stripped, coerced) ==
    /\ Len(coerced) = Len(source)
    /\ \A i \in 1..Len(source) :
          coerced[i] = IF i \in OffendingLines(stripped)
                       THEN <<"-", " ">> \o source[i]
                       ELSE source[i]

(* C21 as stated: coercion rewrites each non-blank prose line into         *)
(* "- <line>", keeps every other line verbatim, and for every document     *)
(* whose headings match the skeleton the coerced document validates with   *)
(* zero errors.                                                            *)
C21_Original ==
    Coerced =>
        /\ RewritesProseOnly(SourceLines, StripAll(SourceLines), CoercedLines)
        /\ SkeletonExact(StripAll(SourceLines)) => md_errors = <<>>

CoercedValidates(stripped, errors) ==
    (SkeletonExact(stripped) /\ TitleFirst(stripped)) => errors = <<>>

(* C21: coercion rewrites each non-blank prose line into "- <line>",       *)
(* keeps every other line verbatim, and for every document whose headings  *)
(* match the skeleton and whose first non-blank line is the title heading  *)
(* the coerced document validates with zero errors.                        *)
C21_CoercedValidates ==
    Coerced =>
        /\ RewritesProseOnly(SourceLines, StripAll(SourceLines), CoercedLines)
        /\ CoercedValidates(StripAll(SourceLines), md_errors)

(* a document with the skeleton's headings and a prose line below the      *)
(* first item was coerced and validated                                    *)
C21_Witness ==
    /\ Coerced
    /\ md_errors = <<>>
    /\ md_content # md_source
    /\ SkeletonExact(StripAll(SourceLines))
    /\ TitleFirst(StripAll(SourceLines))

(* the provider object has a generate_spec_markdown method: the providers *)
(* of providers.py have none                                               *)
OffersSpecMarkdown(p) == p = "fake_llm"

(* content + ("" if content.endswith("\n") else "\n") *)
EndWithNewline(content) ==
    IF content # <<>> /\ content[Len(content)] = "\n" THEN content
    ELSE content \o <<"\n">>

(* the markdown text _generate_spec writes for the draft of the run *)
WrittenMarkdown == EndWithNewline(render_spec_markdown(draft))

CallsOf(method) == Cardinality({k \in 1..Len(calls) : calls[k] = method})

(* C22: when the provider is LLM-backed and offers generate_spec_markdown, *)
(* a markdown document is written by calling generate_spec_markdown        *)
(* exactly once and is exactly what it returned; a JSON document is        *)
(* written without calling it.                                             *)
C22_LLMMarkdownPath ==
    (pc = "exit" /\ IsLLMProvider(provider) /\ OffersSpecMarkdown(provider)
     /\ written # <<>>) =>
        IF written = <<"markdown">>
        THEN /\ CallsOf("generate_spec_markdown") = 1
             /\ WrittenMarkdown = FakeSpecMarkdown
        ELSE CallsOf("generate_spec_markdown") = 0

(* build_spec_draft was entered and is over: it returned, or an exception  *)
(* left it                                                                 *)
BuildOver == calls # <<>> /\ (built \/ pc = "exit")

LastCall == calls[Len(calls)]

NormalizedLast == CallsOf("normalize_spec") = 1 /\ LastCall = "normalize_spec"

ListsOfDraft ==
    /\ missing_fields = MissingFieldsOf(draft)
    /\ ambiguous_fields = AmbiguousFieldsOf(draft)

NormalizeOnceAtEnd ==
    /\ CallsOf("normalize_spec") <= 1
    /\ CallsOf("normalize_spec") = 1 => LastCall = "normalize_spec"
    /\ built => (NormalizedLast /\ ListsOfDraft)
    /\ (BuildOver /\ ~built) => exit_code = 3
    /\ (BuildOver /\ CallsOf("normalize_spec") = 0) =>
          LastCall \in {"extract_requirements", "generate_followup"}

(* once normalize_spec has returned nothing more is asked and the draft    *)
(* and the lists stay as they are                                          *)
NothingAfterNormalize ==
    built => /\ asked' = asked
             /\ followups_asked' = followups_asked
             /\ calls' = calls
             /\ draft' = draft
             /\ missing_fields' = missing_fields
             /\ ambiguous_fields' = ambiguous_fields

Passed(x) == x # None

NamedProvider(name) == Lower(Strip(name))

(* the configuration the claim gives to the explicit arguments *)
ExplicitConfig(name, key, result) ==
    IF Strip(key) = <<>> THEN ~result.ok
    ELSE IF NamedProvider(name) = T_OPENROUTER
    THEN result.ok /\ result.config = OpenRouterConfig(Strip(key))
    ELSE IF NamedProvider(name) = T_OPENAI
    THEN result.ok /\ result.config = OpenAIConfig(Strip(key))
    ELSE ~result.ok

(* and to the environment *)
EnvironConfig(openrouter_key, openai_key, result) ==
    IF openrouter_key # <<>>
    THEN result.ok /\ result.config = OpenRouterConfig(openrouter_key)
    ELSE IF openai_key # <<>>
    THEN result.ok /\ result.config = OpenAIConfig(openai_key)
    ELSE ~result.ok

(* C24 as stated: a provider name passed together with a key is used      *)
(* first (openrouter with the OpenRouter base URL, openai without one, any *)
(* other name or an empty key raises ProviderError); otherwise a non-empty *)
(* OPENROUTER_API_KEY is used, otherwise a non-empty OPENAI_API_KEY, and   *)
(* with none of them ProviderError is raised.                              *)
C24_Original ==
    pc = "rc_done" =>
        IF Passed(rc_provider_name) /\ Passed(rc_api_key)
        THEN ExplicitConfig(rc_provider_name[1], rc_api_key[1], rc_result[1])
        ELSE EnvironConfig(Strip(GetEnv(rc_environ, "OPENROUTER_API_KEY")),
                           Strip(GetEnv(rc_environ, "OPENAI_API_KEY")), rc_result[1])

(* C24: a provider name and a key that are both passed as non-empty        *)
(* strings are used first (openrouter with the OpenRouter base URL, openai *)
(* without one, any other name or a key of only whitespace raises          *)
(* ProviderError); otherwise, also when the name or the key is the empty   *)
(* string, a non-empty OPENROUTER_API_KEY is used, otherwise a non-empty   *)
(* OPENAI_API_KEY, and with none of them ProviderError is raised.          *)
C24_CredentialPrecedence ==
    pc = "rc_done" =>
        IF Truthy(rc_provider_name) /\ Truthy(rc_api_key)
        THEN ExplicitConfig(rc_provider_name[1], rc_api_key[1], rc_result[1])
        ELSE EnvironConfig(Strip(GetEnv(rc_environ, "OPENROUTER_API_KEY")),
                           Strip(GetEnv(rc_environ, "OPENAI_API_KEY")), rc_result[1])

(* explicit OpenAI credentials were used although both environment         *)
(* variables hold a key                                                    *)
C24_Witness ==
    /\ pc = "rc_done"
    /\ Truthy(rc_provider_name) /\ NamedProvider(rc_provider_name[1]) = T_OPENAI
    /\ Truthy(rc_api_key)
    /\ \A name \in ENV_NAMES : Strip(GetEnv(rc_environ, name)) # <<>>
    /\ rc_result[1].ok
    /\ rc_result[1].config = OpenAIConfig(Strip(rc_api_key[1]))

(* the lines of the prompt that carry a label of the field: the text      *)
(* before the first colon is one of the field's labels, whatever its case, *)
(* and text follows the colon                                              *)
OwnLines(lines, name) ==
    {i \in 1..Len(lines) :
        /\ HasColon(lines[i])
        /\ LabelOfLine(lines[i]) \in FieldLabels[name]
        /\ Strip(ValueOfLine(lines[i])) # <<>>}

(* the value of a label line as the parser cleans it *)
CleanValue(line) == RStripDots(Strip(ValueOfLine(line)))

(* the field is set from a label line only from the first line that        *)
(* carries its own label                                                   *)
FromOwnLine(lines, name, candidate) ==
    IF OwnLines(lines, name) = {} \/ CleanValue(lines[MinOf(OwnLines(lines, name))]) = <<>>
    THEN candidate.rationale # R_EXPLICIT_LABEL
    ELSE candidate = FieldCandidate(CleanValue(lines[MinOf(OwnLines(lines, name))]),
                                    CONF_EXPLICIT_LABEL, R_EXPLICIT_LABEL)

(* C25: in heuristic extraction each field takes the value of the first    *)
(* line, in prompt order, that carries that field's own label, and a line  *)
(* labelled for another field never becomes the value of a different       *)
(* field.                                                                  *)
C25_OwnLabelOnly ==
    (HeuristicRun /\ draft # <<>>) =>
        \A name \in RequiredFieldSet :
            FromOwnLine(StripNonBlank(SplitLines(prompt)), name, draft[name])

(* the run uses the heuristic strategy and has extracted its draft *)
HeuristicDraft == provider = "local" /\ draft # <<>>

Accepted(candidate) == candidate.value # <<>> /\ candidate.confidence >= AcceptedConfidence

IsCanonicalType(text) == \E i \in 1..Len(ProjectType) : text = ProjectType[i]

FromLabelLine(candidate) ==
    candidate.rationale = R_EXPLICIT_LABEL /\ candidate.confidence = CONF_EXPLICIT_LABEL

(* C26 as stated: in a heuristic run an accepted project_type (non-empty   *)
(* value, confidence >= 0.8) is one of the seven enumeration texts.        *)
C26_Original ==
    (HeuristicDraft /\ Accepted(draft["project_type"])) =>
        IsCanonicalType(draft["project_type"].value)

ClosedUnlessLabelled(candidate) ==
    /\ Accepted(candidate) => (IsCanonicalType(candidate.value) \/ FromLabelLine(candidate))
    /\ (candidate.value # <<>> /\ ~IsCanonicalType(candidate.value)
         /\ ~FromLabelLine(candidate)) =>
            candidate.confidence = CONF_UNRECOGNIZED_TYPE

(* C26: at every moment of a heuristic-strategy run (interactive or not,   *)
(* any prompt and any answers), if project_type is accepted (non-empty     *)
(* value with confidence >= 0.8) then its value is one of the seven        *)
(* canonical enumeration texts or it is the text of a label line of the    *)
(* prompt, held as written at confidence 0.95 with rationale               *)
(* "explicit_label"; any other text outside the closed set is only ever    *)
(* held at confidence 0.4.                                                 *)
C26_ClosedUnlessLabelled == HeuristicDraft => ClosedUnlessLabelled(draft["project_type"])

(* the answer "cli  TOOL" to the project_type question was accepted as     *)
(* "CLI tool"                                                              *)
C26_Witness ==
    /\ HeuristicDraft /\ built
    /\ InSeq("project_type", asked)
    /\ AnswerFor("project_type") = A_CLI_TOOL
    /\ draft["project_type"] = FieldCandidate(CLI_TOOL, CONF_EXACT, R_INTERACTIVE_USER_ANSWER)

CallJsonOver == pc \in {"cj_returned", "cj_done", "cj_rejected", "cj_raised"}

FailedAttempts == SelectSeq(cj_log, LAMBDA e : e.kind \in CJ_FAILURES)

Sleeps == SelectSeq(cj_log, LAMBDA e : e.kind = "sleep")

(* C27: a call of _call_json of a provider that has an observer hands the  *)
(* observer exactly one event: when an attempt succeeds, an event with     *)
(* schema_valid true whose retry_count is the index of that attempt, which *)
(* is the number of attempts that failed before it; when every attempt     *)
(* has failed, an event with schema_valid false whose retry_count is       *)
(* max_retries; as long as the call is under way the observer has seen     *)
(* nothing, so that a failed attempt that is retried emits no event; and   *)
(* the call sleeps once per retried attempt, never after the last failure. *)
C27_OneCallEvent ==
    cj_observer =>
        /\ ~CallJsonOver => cj_events = <<>>
        /\ pc \in {"cj_returned", "cj_done", "cj_rejected"} =>
              /\ cj_events = <<CallEvent(cj_stage, Len(FailedAttempts), TRUE)>>
              /\ CallJsonAttempts[Len(CallJsonAttempts)] =
                     Event("attempt_ok", Len(FailedAttempts))
        /\ pc = "cj_raised" =>
              /\ cj_events = <<CallEvent(cj_stage, cj_max_retries, FALSE)>>
              /\ Len(FailedAttempts) = cj_max_retries + 1
              /\ Len(Sleeps) = cj_max_retries
              /\ cj_log[Len(cj_log)].kind # "sleep"
              /\ cj_log[Len(cj_log) - 1].kind \in CJ_FAILURES

(* a call that spends its budget of two retries: three failed attempts,    *)
(* two sleeps, and one event, emitted after the third failure              *)
C27_Witness ==
    /\ cj_observer
    /\ pc = "cj_raised"
    /\ cj_max_retries = 2
    /\ Len(FailedAttempts) = 3
    /\ Len(Sleeps) = 2
    /\ cj_events = <<CallEvent(cj_stage, 2, FALSE)>>

(* a call whose second attempt succeeds after one retried failure *)
C27_WitnessSuccess ==
    /\ cj_observer
    /\ pc = "cj_returned"
    /\ Len(FailedAttempts) = 1
    /\ cj_events = <<CallEvent(cj_stage, 1, TRUE)>>

====
